---------------------------- MODULE Spec2Model ----------------------------
(***************************************************************************)
(* A model of Task-Tracker-CLI: the Task record and its setters, the       *)
(* TaskManager store, the text codec (toJson / fromJson), the TaskMatrix   *)
(* index and the App command handlers that drive them.                     *)
(*                                                                         *)
(* Text is modelled as TLA+ strings, i.e. sequences of characters: the     *)
(* codec operators build and scan the same characters as the C++ code.     *)
(* The clock counts milliseconds since the epoch and is read in UTC.       *)
(***************************************************************************)
EXTENDS Integers, Sequences, FiniteSets, TLC

VARIABLES
    tasks,      \* TaskManager::_tasks, the ordered collection of records
    next_id,    \* TaskManager::_next_id
    now,        \* the last value std::chrono::system_clock::now() returned
    matrix,     \* TaskMatrix::matrix, category -> priority -> records
    file,       \* the contents of the JSON file: <<>> when absent, else <<text>>
    last,       \* the operation the program performed last, and its result
    issued,     \* history: the ids successful addTask calls returned, in order
    recent      \* App::_recent_commands, oldest first

storeVars == <<tasks, next_id>>
vars == <<tasks, next_id, now, matrix, file, last, issued, recent>>
\* the same, led by the name of the last operation: the value an operation
\* leaves in last depends on which operation it was
opVars == <<last.op, vars>>

----------------------------------------------------------------------------
(* Bounds of the model. *)

\* the clock stops advancing at this many milliseconds
MaxClock == 2
\* successful addTask calls in one run
MaxAdds == 3
\* characters, or escape sequences, in a string handed to the codec
MaxText == 3

----------------------------------------------------------------------------
(* Values. *)

TaskStatus == {"Pending", "InProgress", "Completed", "Cancelled"}

Ok == "ok"
EmptyTitle == "EmptyTitle"
DuplicateTask == "DuplicateTask"
TaskNotFound == "TaskNotFound"
InvalidPriority == "InvalidPriority"
FileNotFound == "FileNotFound"
InvalidFormat == "InvalidFormat"
ParseError == "ParseError"

\* std::optional<time_point>: the empty sequence is std::nullopt
nullopt == <<>>

Min(a, b) == IF a <= b THEN a ELSE b

\* the values a later call of system_clock::now() in the same operation may
\* return when an earlier one returned t
Ticks(t) == t .. Min(t + 1, MaxClock)

----------------------------------------------------------------------------
(* Task: constructor and setters.  Each takes the time(s) its calls of     *)
(* now() return and yields [ok, task].                                     *)

Task(id, title, description, status, t) ==
    [id |-> id, title |-> title, description |-> description, status |-> status,
     created_at |-> t, updated_at |-> t, completed_at |-> nullopt,
     category |-> "General", priority |-> 0]

\* setTitle refusing nothing
Task_setTitle_unchecked(task, title, t) ==
    [result |-> Ok, task |-> [task EXCEPT !.title = title, !.updated_at = t]]

Task_setTitle(task, title, t) ==
    IF title = ""
    THEN [result |-> EmptyTitle, task |-> task]
    ELSE [result |-> Ok, task |-> [task EXCEPT !.title = title, !.updated_at = t]]

Task_setDescription(task, description, t) ==
    [result |-> Ok,
     task |-> [task EXCEPT !.description = description, !.updated_at = t]]

\* t1 is the time stamped on updated_at, t2 the later call's time
Task_setStatus_clearing(task, status, t1, t2) ==
    [result |-> Ok,
     task |-> [task EXCEPT !.status = status, !.updated_at = t1,
                           !.completed_at = IF status = "Completed" THEN <<t2>> ELSE nullopt]]

Task_setStatus(task, status, t1, t2) ==
    [result |-> Ok,
     task |-> [task EXCEPT !.status = status, !.updated_at = t1,
                           !.completed_at = IF status = "Completed" THEN <<t2>> ELSE @]]

\* setPriority leaving updated_at as it was
Task_setPriority_unstamped(task, priority, t) ==
    [result |-> Ok, task |-> [task EXCEPT !.priority = priority]]

Task_setPriority(task, priority, t) ==
    [result |-> Ok,
     task |-> [task EXCEPT !.priority = priority, !.updated_at = t]]

Task_setCategory(task, category, t) ==
    [result |-> Ok,
     task |-> [task EXCEPT !.category = category, !.updated_at = t]]

Task_isCompleted(task) == task.status = "Completed"

----------------------------------------------------------------------------
(* Text.  A std::string is a TLA+ string; positions are counted from 1,    *)
(* so position p is the C++ index p - 1, and npos is 0.                    *)
(*                                                                         *)
(* A local variable that the code computes once and reads several times is *)
(* written TheOnly({body : x \in {e}}): x is the value of e inside body,   *)
(* computed once however often body reads it.                              *)

TheOnly(S) == CHOOSE x \in S : TRUE

MinOf(S) == CHOOSE p \in S : \A q \in S : p <= q
MaxOf(S) == CHOOSE p \in S : \A q \in S : p >= q

npos == 0

CharAt(str, p) == SubSeq(str, p, p)

\* std::string::substr(pos, count) with pos and count as in C++ (pos from 1)
Substr(str, p, count) == SubSeq(str, p, Min(p + count - 1, Len(str)))

\* std::string::find(pat, from): the first position >= from where pat
\* occurs, or npos
Find(str, pat, from) ==
    TheOnly({IF at = {} THEN npos ELSE MinOf(at) :
             at \in {{p \in from .. (Len(str) - Len(pat) + 1) :
                        SubSeq(str, p, p + Len(pat) - 1) = pat}}})

\* std::isspace in the C locale, over the characters a TLA+ string can hold
IsSpace(c) == c \in {" ", "\t", "\n", "\r", "\f"}

\* the characters value.erase(...find_first_not_of(" \t\n\r")) trims
IsTrimmed(c) == c \in {" ", "\t", "\n", "\r"}

\* the loop while (pos < length && isspace(str[pos])) ++pos: the first
\* position from p on that holds no whitespace, or the one past the end
SkipSpace(str, p) ==
    CHOOSE q \in p .. (Len(str) + 1) :
        /\ q = Len(str) + 1 \/ ~IsSpace(CharAt(str, q))
        /\ \A r \in p .. (q - 1) : IsSpace(CharAt(str, r))

\* erase up to find_first_not_of and after find_last_not_of: what lies
\* between the first and the last character that is not trimmed
Trim(str) ==
    TheOnly({IF kept = {} THEN "" ELSE SubSeq(str, MinOf(kept), MaxOf(kept)) :
             kept \in {{p \in 1 .. Len(str) : ~IsTrimmed(CharAt(str, p))}}})

Digits == "0123456789"
IsDigit(c) == c # "" /\ Find(Digits, c, 1) # npos
DigitValue(c) == Find(Digits, c, 1) - 1

\* std::format("{}", n) for a non-negative int
RECURSIVE FormatNat(_)
FormatNat(n) ==
    IF n < 10 THEN CharAt(Digits, n + 1)
    ELSE TheOnly({FormatNat(q) : q \in {n \div 10}}) \o CharAt(Digits, (n % 10) + 1)

\* std::format("{}", n) for an int
FormatInt(n) == IF n < 0 THEN "-" \o FormatNat(-n) ELSE FormatNat(n)

\* std::format("{:03d}", n)
Format03d(n) ==
    IF n < 0 THEN "-" \o (IF -n < 10 THEN "0" ELSE "") \o FormatNat(-n)
    ELSE (IF n < 10 THEN "00" ELSE IF n < 100 THEN "0" ELSE "") \o FormatNat(n)

INT_MAX == 2147483647

\* the number the digits from position p on add to acc, as far as an int
\* holds it: JustOver is INT_MAX + 1 (the magnitude of INT_MIN), FarOver
\* anything larger
JustOver == -1
FarOver == -2

StoiStep(acc, d) ==
    IF acc \in {JustOver, FarOver} THEN FarOver
    ELSE IF acc <= (INT_MAX - d) \div 10 THEN acc * 10 + d
    ELSE IF acc = INT_MAX \div 10 /\ d = (INT_MAX % 10) + 1 THEN JustOver
    ELSE FarOver

\* the digits std::stoi consumes from position p on, as a number (acc so far)
RECURSIVE StoiDigits(_, _, _)
StoiDigits(str, p, acc) ==
    IF p <= Len(str) /\ IsDigit(CharAt(str, p))
    THEN TheOnly({StoiDigits(str, q, a) :
                  q \in {p + 1}, a \in {StoiStep(acc, DigitValue(CharAt(str, p)))}})
    ELSE acc

\* std::stoi(str): leading whitespace, an optional sign, then digits up to
\* the first other character.  thrown is TRUE for std::invalid_argument (no
\* digit) and std::out_of_range (the value does not fit an int).
Stoi(str) ==
    TheOnly({
        LET negative == p0 <= Len(str) /\ CharAt(str, p0) = "-"
            signed == p0 <= Len(str) /\ CharAt(str, p0) \in {"-", "+"}
            p1 == IF signed THEN p0 + 1 ELSE p0
        IN IF ~(p1 <= Len(str) /\ IsDigit(CharAt(str, p1)))
           THEN [thrown |-> TRUE, value |-> 0]
           ELSE TheOnly({
                    IF magnitude = FarOver \/ (magnitude = JustOver /\ ~negative)
                    THEN [thrown |-> TRUE, value |-> 0]
                    ELSE IF magnitude = JustOver
                    THEN [thrown |-> FALSE, value |-> -INT_MAX - 1]
                    ELSE [thrown |-> FALSE,
                          value |-> IF negative THEN -magnitude ELSE magnitude] :
                    magnitude \in {StoiDigits(str, p1, 0)}}) :
        p0 \in {SkipSpace(str, 1)}})

----------------------------------------------------------------------------
(* The codec of one record. *)

\* characters no escape of a TLA+ string names: the bytes 0x01, 0x08 ('\b')
\* and 0xE9
StartOfHeading == ""
Backspace == ""
HighByte == "é"

\* the value of a (signed) char: the control characters by their codes, a
\* byte from 0x80 on by its code less 256, and every other character of
\* the model is printable ASCII, at or above 32
SignedChar(c) ==
    CASE c = "\t" -> 9
      [] c = "\n" -> 10
      [] c = "\f" -> 12
      [] c = "\r" -> 13
      [] c = Backspace -> 8
      [] c = StartOfHeading -> 1
      [] c = HighByte -> 233 - 256
      [] OTHER -> 32

HexDigits == "0123456789abcdef"

\* std::format("{:04x}", n) for 0 <= n < 65536
Format04x(n) ==
    CharAt(HexDigits, ((n \div 4096) % 16) + 1)
    \o CharAt(HexDigits, ((n \div 256) % 16) + 1)
    \o CharAt(HexDigits, ((n \div 16) % 16) + 1)
    \o CharAt(HexDigits, (n % 16) + 1)

\* one iteration of the loop of escapeJsonString
EscapeChar(c) ==
    CASE c = "\"" -> "\\\""
      [] c = "\\" -> "\\\\"
      [] c = Backspace -> "\\b"
      [] c = "\f" -> "\\f"
      [] c = "\n" -> "\\n"
      [] c = "\r" -> "\\r"
      [] c = "\t" -> "\\t"
      [] OTHER -> IF SignedChar(c) < 32
                  THEN "\\u" \o Format04x(SignedChar(c) % 256)
                  ELSE c

\* escaped[i] is what the loop appends from the character at i on
escapeJsonString(str) ==
    LET escaped[i \in 1 .. (Len(str) + 1)] ==
            IF i > Len(str) THEN ""
            ELSE EscapeChar(CharAt(str, i)) \o escaped[i + 1]
    IN escaped[1]

\* unescaped[i] is what the loop appends from index i on
unescapeJsonString(str) ==
    LET unescaped[i \in 1 .. (Len(str) + 1)] ==
            IF i > Len(str) THEN ""
            ELSE IF CharAt(str, i) = "\\" /\ i + 1 <= Len(str)
            THEN CASE CharAt(str, i + 1) = "\"" -> "\"" \o unescaped[i + 2]
                   [] CharAt(str, i + 1) = "\\" -> "\\" \o unescaped[i + 2]
                   [] CharAt(str, i + 1) = "b" -> Backspace \o unescaped[i + 2]
                   [] CharAt(str, i + 1) = "f" -> "\f" \o unescaped[i + 2]
                   [] CharAt(str, i + 1) = "n" -> "\n" \o unescaped[i + 2]
                   [] CharAt(str, i + 1) = "r" -> "\r" \o unescaped[i + 2]
                   [] CharAt(str, i + 1) = "t" -> "\t" \o unescaped[i + 2]
                   [] OTHER -> CharAt(str, i) \o unescaped[i + 1]
            ELSE CharAt(str, i) \o unescaped[i + 1]
    IN unescaped[1]

taskStatusToString(status) ==
    CASE status = "Pending" -> "Pending"
      [] status = "InProgress" -> "In Progress"
      [] status = "Completed" -> "Completed"
      [] status = "Cancelled" -> "Cancelled"
      [] OTHER -> "Unknown"

\* std::optional<TaskStatus>: <<>> is std::nullopt
stringToTaskStatus(str) ==
    IF str \in {"pending", "Pending"} THEN <<"Pending">>
    ELSE IF str \in {"progress", "in-progress", "In Progress"} THEN <<"InProgress">>
    ELSE IF str \in {"completed", "Completed"} THEN <<"Completed">>
    ELSE IF str \in {"cancelled", "Cancelled"} THEN <<"Cancelled">>
    ELSE nullopt

\* the date and time of day std::put_time prints for every time of the
\* model: the clock stays within the first second of the epoch, in UTC
EpochSecond == "1970-01-01T00:00:00"

timePointToIsoString(tp) == EpochSecond \o "." \o Format03d(tp % 1000)

\* the time std::mktime yields when std::get_time could not read the text
BadTime == -1000

isoStringToTimePoint(iso_str) ==
    TheOnly({
        LET tp == IF Substr(iso_str, 1, Len(EpochSecond)) = EpochSecond THEN 0 ELSE BadTime
            ms_str == Substr(iso_str, dot_pos + 1, 3)
        IN IF dot_pos # npos /\ ms_str # "" /\ IsDigit(CharAt(ms_str, 1))
           THEN tp + Stoi(ms_str).value
           ELSE tp :
        dot_pos \in {Find(iso_str, ".", 1)}})

\* the scan of a quoted value: the position of the closing quote (or past
\* the end), a backslash skipping the character after it
ScanQuoted(str, pos) ==
    LET scan[end_pos \in 1 .. (Len(str) + 2)] ==
            IF end_pos <= Len(str) /\ CharAt(str, end_pos) # "\""
            THEN scan[IF CharAt(str, end_pos) = "\\" THEN end_pos + 2 ELSE end_pos + 1]
            ELSE end_pos
    IN scan[pos]

\* the scan of a bare value: the position of the first , } newline or
\* carriage return (or the one past the end)
ScanBare(str, pos) ==
    CHOOSE end_pos \in pos .. (Len(str) + 1) :
        /\ end_pos = Len(str) + 1 \/ CharAt(str, end_pos) \in {",", "}", "\n", "\r"}
        /\ \A r \in pos .. (end_pos - 1) : CharAt(str, r) \notin {",", "}", "\n", "\r"}

\* the text of the value that starts at pos: between the quotes, still
\* escaped, when it is quoted, and trimmed up to the next , } or line end
\* when it is not
ValueAt(json_str, pos) ==
    IF pos > Len(json_str) THEN ""
    ELSE IF CharAt(json_str, pos) = "\""
    THEN TheOnly({Substr(json_str, pos + 1, end_pos - (pos + 1)) :
                  end_pos \in {ScanQuoted(json_str, pos + 1)}})
    ELSE TheOnly({Trim(value) :
                  value \in {TheOnly({Substr(json_str, pos, end_pos - pos) :
                                      end_pos \in {ScanBare(json_str, pos)}})}})

\* the findValue lambda of TaskManager::fromJsonString: no unescape
findValueRaw(json_str, key) ==
    TheOnly({
        IF found = npos THEN ""
        ELSE TheOnly({ValueAt(json_str, pos) :
                      pos \in {SkipSpace(json_str, found + Len(key) + 3)}}) :
        found \in {Find(json_str, "\"" \o key \o "\":", 1)}})

\* the findValue lambda of Task::fromJson: quoted values are unescaped
findValue(json_str, key) ==
    TheOnly({
        IF found = npos THEN ""
        ELSE TheOnly({
                 IF pos <= Len(json_str) /\ CharAt(json_str, pos) = "\""
                 THEN TheOnly({unescapeJsonString(value) :
                               value \in {ValueAt(json_str, pos)}})
                 ELSE ValueAt(json_str, pos) :
                 pos \in {SkipSpace(json_str, found + Len(key) + 3)}}) :
        found \in {Find(json_str, "\"" \o key \o "\":", 1)}})

Task_toJson(task) ==
    "{\n"
    \o "  \"id\": " \o FormatInt(task.id) \o ",\n"
    \o "  \"title\": \"" \o escapeJsonString(task.title) \o "\",\n"
    \o "  \"description\": \"" \o escapeJsonString(task.description) \o "\",\n"
    \o "  \"status\": \"" \o taskStatusToString(task.status) \o "\",\n"
    \o "  \"category\": \"" \o escapeJsonString(task.category) \o "\",\n"
    \o "  \"priority\": " \o FormatInt(task.priority) \o ",\n"
    \o "  \"created_at\": \"" \o timePointToIsoString(task.created_at) \o "\",\n"
    \o "  \"updated_at\": \"" \o timePointToIsoString(task.updated_at) \o "\""
    \o (IF task.completed_at # nullopt
        THEN ",\n  \"completed_at\": \"" \o timePointToIsoString(task.completed_at[1]) \o "\""
        ELSE "")
    \o "\n}"

\* the decoding with the status looked at before the id is converted
Task_fromValues_statusFirst(id_str, title, description, status_str, category, priority_str, created_at_str, updated_at_str, completed_at_str, t) ==
    LET id == Stoi(id_str)
        status_opt == stringToTaskStatus(status_str)
        priority == Stoi(priority_str)
        task0 == Task(id.value, title, description, status_opt[1], t)
        task1 == IF category # "" THEN Task_setCategory(task0, category, t).task ELSE task0
        task2 == IF priority_str # ""
                 THEN Task_setPriority(task1, priority.value, t).task ELSE task1
        task3 == IF created_at_str # ""
                 THEN [task2 EXCEPT !.created_at = isoStringToTimePoint(created_at_str)]
                 ELSE task2
        task4 == IF updated_at_str # ""
                 THEN [task3 EXCEPT !.updated_at = isoStringToTimePoint(updated_at_str)]
                 ELSE task3
        task5 == IF completed_at_str # ""
                 THEN [task4 EXCEPT !.completed_at = <<isoStringToTimePoint(completed_at_str)>>]
                 ELSE task4
    IN IF id_str = "" \/ title = "" THEN [result |-> InvalidFormat, task |-> <<>>]
       ELSE IF status_opt = nullopt THEN [result |-> InvalidFormat, task |-> <<>>]
       ELSE IF id.thrown THEN [result |-> ParseError, task |-> <<>>]
       ELSE IF priority_str # "" /\ priority.thrown THEN [result |-> ParseError, task |-> <<>>]
       ELSE [result |-> Ok, task |-> <<task5>>]

\* Task::fromJson from the nine values findValue returned; t is the time
\* the constructor and the setters read
Task_fromValues(id_str, title, description, status_str, category, priority_str, created_at_str, updated_at_str, completed_at_str, t) ==
    LET id == Stoi(id_str)
        status_opt == stringToTaskStatus(status_str)
        priority == Stoi(priority_str)
        task0 == Task(id.value, title, description, status_opt[1], t)
        task1 == IF category # "" THEN Task_setCategory(task0, category, t).task ELSE task0
        task2 == IF priority_str # ""
                 THEN Task_setPriority(task1, priority.value, t).task ELSE task1
        task3 == IF created_at_str # ""
                 THEN [task2 EXCEPT !.created_at = isoStringToTimePoint(created_at_str)]
                 ELSE task2
        task4 == IF updated_at_str # ""
                 THEN [task3 EXCEPT !.updated_at = isoStringToTimePoint(updated_at_str)]
                 ELSE task3
        task5 == IF completed_at_str # ""
                 THEN [task4 EXCEPT !.completed_at = <<isoStringToTimePoint(completed_at_str)>>]
                 ELSE task4
    IN IF id_str = "" \/ title = "" THEN [result |-> InvalidFormat, task |-> <<>>]
       ELSE IF id.thrown THEN [result |-> ParseError, task |-> <<>>]
       ELSE IF status_opt = nullopt THEN [result |-> InvalidFormat, task |-> <<>>]
       ELSE IF priority_str # "" /\ priority.thrown THEN [result |-> ParseError, task |-> <<>>]
       ELSE [result |-> Ok, task |-> <<task5>>]

Task_fromJson(json_str, t) ==
    TheOnly({
        TheOnly({
            Task_fromValues(id_str, title, description, status_str, category,
                            priority_str, created_at_str, updated_at_str,
                            completed_at_str, t) :
            id_str \in {findValue(json, "id")},
            title \in {findValue(json, "title")},
            description \in {findValue(json, "description")},
            status_str \in {findValue(json, "status")},
            category \in {findValue(json, "category")},
            priority_str \in {findValue(json, "priority")},
            created_at_str \in {findValue(json, "created_at")},
            updated_at_str \in {findValue(json, "updated_at")},
            completed_at_str \in {findValue(json, "completed_at")}}) :
        json \in {json_str}})

----------------------------------------------------------------------------
(* TaskManager: the store. *)

\* std::ranges::find_if over _tasks: the first index whose record has this
\* id, or Len + 1 for end()
FindById(ts, id) ==
    IF \E i \in 1..Len(ts) : ts[i].id = id
    THEN CHOOSE i \in 1..Len(ts) : ts[i].id = id /\ \A j \in 1..(i - 1) : ts[j].id # id
    ELSE Len(ts) + 1

\* std::vector::erase(it)
Erase(ts, i) == SubSeq(ts, 1, i - 1) \o SubSeq(ts, i + 1, Len(ts))

\* addTask taking the new id from the collection's size
TaskManager_addTask_sizeId(ts, nid, title, description, t) ==
    IF title = ""
    THEN [result |-> EmptyTitle, tasks |-> ts, next_id |-> nid, value |-> 0]
    ELSE IF \E i \in 1..Len(ts) : ts[i].title = title
    THEN [result |-> DuplicateTask, tasks |-> ts, next_id |-> nid, value |-> 0]
    ELSE [result |-> Ok,
          tasks |-> Append(ts, Task(Len(ts) + 1, title, description, "Pending", t)),
          next_id |-> nid + 1, value |-> Len(ts) + 1]

\* addTask drawing the id before it checks for a duplicate title
TaskManager_addTask_earlyId(ts, nid, title, description, t) ==
    IF title = ""
    THEN [result |-> EmptyTitle, tasks |-> ts, next_id |-> nid, value |-> 0]
    ELSE IF \E i \in 1..Len(ts) : ts[i].title = title
    THEN [result |-> DuplicateTask, tasks |-> ts, next_id |-> nid + 1, value |-> 0]
    ELSE [result |-> Ok,
          tasks |-> Append(ts, Task(nid, title, description, "Pending", t)),
          next_id |-> nid + 1, value |-> nid]

TaskManager_addTask(ts, nid, title, description, t) ==
    IF title = ""
    THEN [result |-> EmptyTitle, tasks |-> ts, next_id |-> nid, value |-> 0]
    ELSE IF \E i \in 1..Len(ts) : ts[i].title = title
    THEN [result |-> DuplicateTask, tasks |-> ts, next_id |-> nid, value |-> 0]
    ELSE [result |-> Ok,
          tasks |-> Append(ts, Task(nid, title, description, "Pending", t)),
          next_id |-> nid + 1, value |-> nid]

\* removeTask erasing the element after the one it found
TaskManager_removeTask_offByOne(ts, id) ==
    LET it == FindById(ts, id) IN
    IF it = Len(ts) + 1
    THEN [result |-> TaskNotFound, tasks |-> ts]
    ELSE [result |-> Ok, tasks |-> Erase(ts, Min(it + 1, Len(ts)))]

TaskManager_removeTask(ts, id) ==
    LET it == FindById(ts, id) IN
    IF it = Len(ts) + 1
    THEN [result |-> TaskNotFound, tasks |-> ts]
    ELSE [result |-> Ok, tasks |-> Erase(ts, it)]

TaskManager_getTask(ts, id) ==
    LET it == FindById(ts, id) IN
    IF it = Len(ts) + 1
    THEN [result |-> TaskNotFound, value |-> <<>>]
    ELSE [result |-> Ok, value |-> <<ts[it]>>]

\* updateTaskStatus setting the status of the first record instead of the
\* one it found
TaskManager_updateTaskStatus_first(ts, id, status, t1, t2) ==
    LET it == FindById(ts, id) IN
    IF it = Len(ts) + 1
    THEN [result |-> TaskNotFound, tasks |-> ts]
    ELSE [result |-> Ok,
          tasks |-> [ts EXCEPT ![1] = Task_setStatus(ts[1], status, t1, t2).task]]

TaskManager_updateTaskStatus(ts, id, status, t1, t2) ==
    LET it == FindById(ts, id) IN
    IF it = Len(ts) + 1
    THEN [result |-> TaskNotFound, tasks |-> ts]
    ELSE [result |-> Ok,
          tasks |-> [ts EXCEPT ![it] = Task_setStatus(ts[it], status, t1, t2).task]]

\* auto r = getTask(id); r->setTitle(title): the value of *it is copied into
\* the std::expected, so the setter works on the copy; yields the store,
\* the record as returned and the record after the setter
TaskManager_getTask_aliased(ts, id, title, t) ==
    LET it == FindById(ts, id) IN
    IF it = Len(ts) + 1
    THEN [result |-> TaskNotFound, tasks |-> ts, value |-> <<>>, edited |-> <<>>]
    ELSE [result |-> Ok,
          tasks |-> [ts EXCEPT ![it] = Task_setTitle(ts[it], title, t).task],
          value |-> <<ts[it]>>,
          edited |-> <<Task_setTitle(ts[it], title, t).task>>]

TaskManager_getTask_thenSet(ts, id, title, t) ==
    LET task_result == TaskManager_getTask(ts, id) IN
    IF task_result.result # Ok
    THEN [result |-> task_result.result, tasks |-> ts, value |-> <<>>, edited |-> <<>>]
    ELSE [result |-> Ok,
          tasks |-> ts,
          value |-> task_result.value,
          edited |-> <<Task_setTitle(task_result.value[1], title, t).task>>]

\* filterTasks is _tasks | std::views::filter(pred), read here from begin()
\* to end()
TaskManager_getTasksByStatus(ts, status) ==
    LET pred(task) == task.status = status IN SelectSeq(ts, pred)

\* the priority filter with the upper end left out
TaskManager_getTasksByPriority_exclusive(ts, min_priority, max_priority) ==
    LET pred(task) == task.priority >= min_priority /\ task.priority < max_priority
    IN SelectSeq(ts, pred)

TaskManager_getTasksByPriority(ts, min_priority, max_priority) ==
    LET pred(task) == task.priority >= min_priority /\ task.priority <= max_priority
    IN SelectSeq(ts, pred)

TaskManager_getCompletedTasksCount(ts) == Len(SelectSeq(ts, Task_isCompleted))

TaskManager_getPendingTasksCount(ts) ==
    LET pending(task) == task.status = "Pending" IN Len(SelectSeq(ts, pending))

\* a double is kept as the exact quotient num / den; den = 0 stands for the
\* NaN of 0.0 / 0
TaskManager_getCompletionRate_unguarded(ts) ==
    [num |-> TaskManager_getCompletedTasksCount(ts) * 100, den |-> Len(ts)]

TaskManager_getCompletionRate(ts) ==
    IF Len(ts) = 0
    THEN [num |-> 0, den |-> 1]
    ELSE [num |-> TaskManager_getCompletedTasksCount(ts) * 100, den |-> Len(ts)]

\* getSortedTasks: std::ranges::sort on a copy of _tasks.  The comparator
\* is the set of the pairs <<a, b>> it is true of.  The sort is not stable,
\* so records the comparator does not order may come out either way: the
\* results are all the arrangements reached by taking, again and again,
\* some record that no remaining record comes before
TaskManager_getSortedTasks(ts, comp) ==
    LET RECURSIVE Arrange(_)
        Arrange(rest) ==
            IF rest = <<>>
            THEN {<<>>}
            ELSE UNION {{<<rest[i]>> \o tail : tail \in Arrange(Erase(rest, i))} :
                        i \in {i \in 1..Len(rest) :
                                  \A j \in 1..Len(rest) : <<rest[j], rest[i]>> \notin comp}}
    IN Arrange(ts)

----------------------------------------------------------------------------
(* The codec of the collection. *)

\* the getline loop of toJsonString: every line of str behind four spaces,
\* the lines joined by newlines
RECURSIVE IndentLines(_)
IndentLines(str) ==
    TheOnly({
        IF str = "" THEN ""
        ELSE IF nl = npos THEN "    " \o str
        ELSE IF nl = Len(str) THEN "    " \o SubSeq(str, 1, nl - 1)
        ELSE "    " \o SubSeq(str, 1, nl)
             \o TheOnly({IndentLines(rest) : rest \in {SubSeq(str, nl + 1, Len(str))}}) :
        nl \in {Find(str, "\n", 1)}})

\* the loop of toJsonString: written[i] is what it writes from record i on
TasksToJson(ts) ==
    LET written[i \in 1 .. (Len(ts) + 1)] ==
            IF i > Len(ts) THEN ""
            ELSE TheOnly({IndentLines(task_json) : task_json \in {Task_toJson(ts[i])}})
                 \o (IF i < Len(ts) THEN "," ELSE "") \o "\n"
                 \o written[i + 1]
    IN written[1]

TaskManager_toJsonString(ts, nid) ==
    "{\n"
    \o "  \"version\": \"1.0\",\n"
    \o "  \"next_id\": " \o FormatInt(nid) \o ",\n"
    \o "  \"tasks\": [\n"
    \o TasksToJson(ts)
    \o "  ]\n"
    \o "}"

\* the brace-matching loop: from obj_end with brace_count open braces, the
\* position and count at which it stops.  Only braces change the count, so
\* the loop is followed from one brace to the next.
RECURSIVE MatchBrace(_, _, _, _)
MatchBrace(str, obj_end, array_end, brace_count) ==
    IF ~(obj_end < array_end /\ brace_count > 0)
    THEN [obj_end |-> obj_end, brace_count |-> brace_count]
    ELSE TheOnly({
             IF braces = {}
             THEN [obj_end |-> array_end, brace_count |-> brace_count]
             ELSE TheOnly({
                      MatchBrace(str, next_end, array_end, next_count) :
                      next_end \in {MinOf(braces) + 1},
                      next_count \in {IF CharAt(str, MinOf(braces)) = "{"
                                      THEN brace_count + 1 ELSE brace_count - 1}}) :
             braces \in {{p \in obj_end .. (array_end - 1) :
                            CharAt(str, p) \in {"{", "}"}}}})

\* the while loop of fromJsonString from position pos on, with acc the
\* records pushed so far
RECURSIVE ParseObjects(_, _, _, _, _)
ParseObjects(str, pos, array_end, acc, t) ==
    IF ~(pos < array_end) THEN [result |-> Ok, tasks |-> acc]
    ELSE TheOnly({
        IF obj_start = npos \/ obj_start >= array_end THEN [result |-> Ok, tasks |-> acc]
        ELSE TheOnly({
            IF m.brace_count = 0
            THEN TheOnly({
                     IF task_result.result = Ok
                     THEN TheOnly({ParseObjects(str, m.obj_end, array_end, pushed, t) :
                                   pushed \in {acc \o task_result.task}})
                     ELSE [result |-> task_result.result, tasks |-> acc] :
                     task_result \in
                         {Task_fromJson(SubSeq(str, obj_start, m.obj_end - 1), t)}})
            ELSE ParseObjects(str, m.obj_end, array_end, acc, t) :
            m \in {MatchBrace(str, obj_start + 1, array_end, 1)}}) :
        obj_start \in {Find(str, "{", pos)}})

\* fromJsonString from its first statement on, for a manager holding ts and
\* nid: the result and what the manager holds when it returns.  cleared is
\* what _tasks holds after _tasks.clear().
DecodeDocument(ts, nid, json_str, t, cleared) ==
    TheOnly({
        LET parsed == Stoi(next_id_str)
            nid1 == IF next_id_str # "" THEN parsed.value ELSE nid
            invalid == [result |-> InvalidFormat, tasks |-> ts, next_id |-> nid1]
        IN IF next_id_str # "" /\ parsed.thrown
           THEN [result |-> ParseError, tasks |-> ts, next_id |-> nid]
           ELSE TheOnly({
               IF tasks_pos = npos THEN invalid
               ELSE TheOnly({
                   IF array_start = npos THEN invalid
                   ELSE TheOnly({
                       IF array_end = npos THEN invalid
                       ELSE TheOnly({
                                [result |-> parsedObjects.result,
                                 tasks |-> parsedObjects.tasks,
                                 next_id |-> nid1] :
                                parsedObjects \in
                                    {ParseObjects(json_str, array_start + 1, array_end,
                                                  cleared, t)}}) :
                       array_end \in {Find(json_str, "]", array_start)}}) :
                   array_start \in {Find(json_str, "[", tasks_pos)}}) :
               tasks_pos \in {Find(json_str, "\"tasks\":", 1)}}) :
        next_id_str \in {findValueRaw(json_str, "next_id")}})

\* fromJsonString without the _tasks.clear() before the loop
TaskManager_fromJsonString_appending(ts, nid, json_str, t) ==
    TheOnly({DecodeDocument(records, nid, json, t, records) :
             records \in {ts}, json \in {json_str}})

TaskManager_fromJsonString(ts, nid, json_str, t) ==
    TheOnly({DecodeDocument(records, nid, json, t, <<>>) :
             records \in {ts}, json \in {json_str}})

\* loadFromJson on the file f (<<>> when it cannot be opened)
TaskManager_loadFromJson(ts, nid, f, t) ==
    IF f = <<>> THEN [result |-> FileNotFound, tasks |-> ts, next_id |-> nid]
    ELSE TaskManager_fromJsonString(ts, nid, f[1], t)

----------------------------------------------------------------------------
(* TaskMatrix: the two-level index.  A flat_map is a function whose domain *)
(* is its set of keys.                                                     *)

EmptyMap == [k \in {} |-> <<>>]

\* flat_map::operator[]: the map with key k present, value-initialised to
\* init when it was absent
MapSubscript(m, k, init) ==
    IF k \in DOMAIN m THEN m ELSE [x \in DOMAIN m \cup {k} |-> IF x = k THEN init ELSE m[x]]

MapSet(m, k, v) == [x \in DOMAIN m \cup {k} |-> IF x = k THEN v ELSE m[x]]

\* operator[](category, priority) on a const TaskMatrix: the bucket, or the
\* static empty vector; the matrix is not touched
TaskMatrix_subscript_const(m, category, priority) ==
    IF category \notin DOMAIN m THEN [matrix |-> m, value |-> <<>>]
    ELSE IF priority \notin DOMAIN m[category] THEN [matrix |-> m, value |-> <<>>]
    ELSE [matrix |-> m, value |-> m[category][priority]]

\* operator[](category, priority) on a non-const TaskMatrix:
\* matrix[category][priority], which inserts the keys it does not find
TaskMatrix_subscript(m, category, priority) ==
    LET m1 == MapSubscript(m, category, EmptyMap)
        m2 == MapSet(m1, category, MapSubscript(m1[category], priority, <<>>))
    IN [matrix |-> m2, value |-> m2[category][priority]]

\* addTask taking the category as the key even when it is empty
TaskMatrix_addTask_verbatim(m, task) ==
    LET category == task.category
        priority == task.priority
        bucket == TaskMatrix_subscript(m, category, priority)
    IN MapSet(bucket.matrix, category,
              MapSet(bucket.matrix[category], priority, Append(bucket.value, task)))

\* addTask putting the record in front of its bucket
TaskMatrix_addTask_front(m, task) ==
    LET category == IF task.category = "" THEN "Default" ELSE task.category
        priority == task.priority
        bucket == TaskMatrix_subscript(m, category, priority)
    IN MapSet(bucket.matrix, category,
              MapSet(bucket.matrix[category], priority, <<task>> \o bucket.value))

\* addTask keying every record under priority 0
TaskMatrix_addTask_unranked(m, task) ==
    LET category == IF task.category = "" THEN "Default" ELSE task.category
        priority == 0
        bucket == TaskMatrix_subscript(m, category, priority)
    IN MapSet(bucket.matrix, category,
              MapSet(bucket.matrix[category], priority, Append(bucket.value, task)))

TaskMatrix_addTask(m, task) ==
    LET category == IF task.category = "" THEN "Default" ELSE task.category
        priority == task.priority
        bucket == TaskMatrix_subscript(m, category, priority)
    IN MapSet(bucket.matrix, category,
              MapSet(bucket.matrix[category], priority, Append(bucket.value, task)))

TaskMatrix_clear(m) == EmptyMap

TaskMatrix_getCategories(m) == DOMAIN m

TaskMatrix_getPriorities(m, category) ==
    IF category \in DOMAIN m THEN DOMAIN m[category] ELSE {}

\* the loop of handleMatrix and handleGet: addTask for each record of the
\* store, in order, starting from matrix m
\* the printable characters in the order of their codes: from the space
\* (32) to the underscore (95), and from a (97) to the tilde (126)
AsciiFrom32 == " !\"#$%&'()*+,-./0123456789:;<=>?@ABCDEFGHIJKLMNOPQRSTUVWXYZ[\\]^_"
AsciiFrom97 == "abcdefghijklmnopqrstuvwxyz{|}~"

\* the value of a character as an unsigned char
CharCode(c) ==
    IF Find(AsciiFrom32, c, 1) # npos THEN Find(AsciiFrom32, c, 1) + 31
    ELSE IF Find(AsciiFrom97, c, 1) # npos THEN Find(AsciiFrom97, c, 1) + 96
    ELSE SignedChar(c) % 256

\* std::string operator<: at the first position where they differ, a has
\* ended or holds the smaller character
StringLess(a, b) ==
    \E k \in 1 .. (Min(Len(a), Len(b)) + 1) :
        /\ SubSeq(a, 1, k - 1) = SubSeq(b, 1, k - 1)
        /\ \/ k > Len(a) /\ k <= Len(b)
           \/ /\ k <= Len(a) /\ k <= Len(b)
              /\ CharCode(CharAt(a, k)) < CharCode(CharAt(b, k))

\* the order in which the nested flat_maps are iterated: by category, then
\* by priority
KeyBefore(k1, k2) ==
    \/ StringLess(k1[1], k2[1])
    \/ k1[1] = k2[1] /\ k1[2] < k2[2]

\* the (category, priority) pairs whose bucket holds a record with this id
Holding(m, task_id) ==
    {k \in UNION {{c} \X DOMAIN m[c] : c \in DOMAIN m} :
        \E i \in 1..Len(m[k[1]][k[2]]) : m[k[1]][k[2]][i].id = task_id}

\* removeTask erasing from the last bucket that holds the id
TaskMatrix_removeTask_last(m, task_id) ==
    TheOnly({
        IF holding = {} THEN [matrix |-> m, value |-> FALSE]
        ELSE TheOnly({
                 [matrix |-> MapSet(m, k[1],
                                 MapSet(m[k[1]], k[2],
                                        Erase(m[k[1]][k[2]],
                                              FindById(m[k[1]][k[2]], task_id)))),
                  value |-> TRUE] :
                 k \in {CHOOSE k \in holding :
                            \A k2 \in holding \ {k} : KeyBefore(k2, k)}}) :
        holding \in {Holding(m, task_id)}})

\* removeTask: the buckets are visited in key order and the first record
\* with the id in the first bucket that has one is erased
TaskMatrix_removeTask(m, task_id) ==
    TheOnly({
        IF holding = {} THEN [matrix |-> m, value |-> FALSE]
        ELSE TheOnly({
                 [matrix |-> MapSet(m, k[1],
                                 MapSet(m[k[1]], k[2],
                                        Erase(m[k[1]][k[2]],
                                              FindById(m[k[1]][k[2]], task_id)))),
                  value |-> TRUE] :
                 k \in {CHOOSE k \in holding :
                            \A k2 \in holding \ {k} : KeyBefore(k, k2)}}) :
        holding \in {Holding(m, task_id)}})

\* the loops of getTotalTaskCount over the (category, priority) pairs still
\* to visit
RECURSIVE SumSizes(_, _)
SumSizes(m, keys) ==
    IF keys = {} THEN 0
    ELSE TheOnly({Len(m[k[1]][k[2]])
                  + TheOnly({SumSizes(m, rest) : rest \in {keys \ {k}}}) :
                  k \in {CHOOSE k \in keys : TRUE}})

TaskMatrix_getTotalTaskCount(m) ==
    SumSizes(m, {<<c, p>> \in UNION {{c} \X DOMAIN m[c] : c \in DOMAIN m} : TRUE})

RECURSIVE AddAll(_, _)
AddAll(m, ts) ==
    IF ts = <<>> THEN m
    ELSE TheOnly({AddAll(added, rest) :
                  added \in {TaskMatrix_addTask(m, Head(ts))}, rest \in {Tail(ts)}})

----------------------------------------------------------------------------
(* Initial state: App's members right after construction. *)

Init ==
    /\ tasks = <<>>
    /\ next_id = 1
    /\ now = 0
    /\ matrix = EmptyMap
    /\ file = <<>>
    /\ last = [op |-> "init", args |-> <<>>, result |-> Ok, value |-> 0]
    /\ issued = <<>>
    /\ recent = <<>>

----------------------------------------------------------------------------
(* Operations of the store. *)

\* the clock advances between two readings of it
Tick ==
    /\ now < MaxClock
    /\ now' = now + 1
    /\ last' = [op |-> "tick", args |-> <<>>, result |-> Ok, value |-> 0]
    /\ UNCHANGED <<tasks, next_id, matrix, file, issued, recent>>

AddTask(title, description) ==
    /\ Len(issued) < MaxAdds
    /\ LET r == TaskManager_addTask(tasks, next_id, title, description, now) IN
         /\ tasks' = r.tasks
         /\ next_id' = r.next_id
         /\ issued' = IF r.result = Ok THEN Append(issued, r.value) ELSE issued
         /\ last' = [op |-> "add", args |-> <<title, description>>,
                     result |-> r.result, value |-> r.value]
    /\ UNCHANGED <<now, matrix, file, recent>>

\* a removal that would also take the record out of the index
RemoveTask_indexed(id) ==
    LET r == TaskManager_removeTask(tasks, id) IN
    /\ tasks' = r.tasks
    /\ matrix' = TaskMatrix_removeTask(matrix, id).matrix
    /\ last' = [op |-> "remove", args |-> <<id>>, result |-> r.result, value |-> 0]
    /\ UNCHANGED <<next_id, now, file, issued, recent>>

RemoveTask(id) ==
    LET r == TaskManager_removeTask(tasks, id) IN
    /\ tasks' = r.tasks
    /\ last' = [op |-> "remove", args |-> <<id>>, result |-> r.result, value |-> 0]
    /\ UNCHANGED <<next_id, now, matrix, file, issued, recent>>

UpdateTaskStatus(id, status) ==
    /\ \E t2 \in Ticks(now) :
         LET r == TaskManager_updateTaskStatus(tasks, id, status, now, t2) IN
         /\ tasks' = r.tasks
         /\ now' = IF r.result = Ok /\ status = "Completed" THEN t2 ELSE now
         /\ last' = [op |-> "status", args |-> <<id, status>>,
                     result |-> r.result, value |-> 0]
    /\ UNCHANGED <<next_id, matrix, file, issued, recent>>

\* a caller reaching the stored record through getAllTasks(), as
\* handlePriority does, and calling setTitle on it
SetTitle(id, title) ==
    /\ LET it == FindById(tasks, id) IN
         IF it = Len(tasks) + 1
         THEN /\ tasks' = tasks
              /\ last' = [op |-> "setTitle", args |-> <<id, title>>,
                          result |-> TaskNotFound, value |-> 0]
         ELSE LET r == Task_setTitle(tasks[it], title, now) IN
              /\ tasks' = [tasks EXCEPT ![it] = r.task]
              /\ last' = [op |-> "setTitle", args |-> <<id, title>>,
                          result |-> r.result, value |-> 0]
    /\ UNCHANGED <<next_id, now, matrix, file, issued, recent>>

\* the same with setDescription
SetDescription(id, description) ==
    /\ LET it == FindById(tasks, id) IN
         IF it = Len(tasks) + 1
         THEN /\ tasks' = tasks
              /\ last' = [op |-> "setDescription", args |-> <<id, description>>,
                          result |-> TaskNotFound, value |-> 0]
         ELSE LET r == Task_setDescription(tasks[it], description, now) IN
              /\ tasks' = [tasks EXCEPT ![it] = r.task]
              /\ last' = [op |-> "setDescription", args |-> <<id, description>>,
                          result |-> r.result, value |-> 0]
    /\ UNCHANGED <<next_id, now, matrix, file, issued, recent>>

----------------------------------------------------------------------------
(* Command handlers of App that reach into the records and the index. *)

\* handlePriority with both arguments already parsed as integers
HandlePriority(id, priority) ==
    /\ LET task_result == TaskManager_getTask(tasks, id)
           it == FindById(tasks, id)
       IN IF task_result.result # Ok
            THEN /\ tasks' = tasks
                 /\ last' = [op |-> "priority", args |-> <<id, priority>>,
                             result |-> task_result.result, value |-> 0]
            ELSE LET r == Task_setPriority(tasks[it], priority, now) IN
                 /\ tasks' = [tasks EXCEPT ![it] = r.task]
                 /\ last' = [op |-> "priority", args |-> <<id, priority>>,
                             result |-> r.result, value |-> 0]
    /\ UNCHANGED <<next_id, now, matrix, file, issued, recent>>

\* handleCategory with the id already parsed
HandleCategory(id, category) ==
    /\ LET task_result == TaskManager_getTask(tasks, id)
           it == FindById(tasks, id)
       IN IF task_result.result # Ok
            THEN /\ tasks' = tasks
                 /\ last' = [op |-> "category", args |-> <<id, category>>,
                             result |-> task_result.result, value |-> 0]
            ELSE LET r == Task_setCategory(tasks[it], category, now) IN
                 /\ tasks' = [tasks EXCEPT ![it] = r.task]
                 /\ last' = [op |-> "category", args |-> <<id, category>>,
                             result |-> r.result, value |-> 0]
    /\ UNCHANGED <<next_id, now, matrix, file, issued, recent>>

HandleMatrix ==
    /\ matrix' = AddAll(TaskMatrix_clear(matrix), tasks)
    /\ last' = [op |-> "matrix", args |-> <<>>, result |-> Ok, value |-> 0]
    /\ UNCHANGED <<tasks, next_id, now, file, issued, recent>>

\* handleGet with the priority already parsed; _task_matrix is a non-const
\* member, so the subscript is the non-const one
HandleGet(category, priority) ==
    LET rebuilt == AddAll(TaskMatrix_clear(matrix), tasks)
        found == TaskMatrix_subscript(rebuilt, category, priority)
    IN /\ matrix' = found.matrix
       /\ last' = [op |-> "get", args |-> <<category, priority>>,
                   result |-> Ok, value |-> found.value]
       /\ UNCHANGED <<tasks, next_id, now, file, issued, recent>>

\* TaskMatrix::removeTask called on the index as it stands
IndexRemove(task_id) ==
    LET r == TaskMatrix_removeTask(matrix, task_id) IN
    /\ matrix' = r.matrix
    /\ last' = [op |-> "indexRemove", args |-> <<task_id>>, result |-> Ok,
                value |-> r.value]
    /\ UNCHANGED <<tasks, next_id, now, file, issued, recent>>

\* TaskMatrix::addTask called on the index as it stands, while the index
\* holds fewer than MaxAdds records
IndexAdd(task) ==
    /\ TaskMatrix_getTotalTaskCount(matrix) < MaxAdds
    /\ matrix' = TaskMatrix_addTask(matrix, task)
    /\ last' = [op |-> "indexAdd", args |-> <<task>>, result |-> Ok, value |-> 0]
    /\ UNCHANGED <<tasks, next_id, now, file, issued, recent>>

\* TaskMatrix::clear called on the index as it stands
IndexClear ==
    /\ matrix' = TaskMatrix_clear(matrix)
    /\ last' = [op |-> "indexClear", args |-> <<>>, result |-> Ok, value |-> 0]
    /\ UNCHANGED <<tasks, next_id, now, file, issued, recent>>

----------------------------------------------------------------------------
(* Reads of the store. *)

\* a caller takes the record getTask returns and sets the title of what it
\* was given
GetTaskThenSet(id, title) ==
    LET r == TaskManager_getTask_thenSet(tasks, id, title, now) IN
    /\ tasks' = r.tasks
    /\ last' = [op |-> "getTask", args |-> <<id, title>>, result |-> r.result,
                value |-> [task |-> r.value, edited |-> r.edited]]
    /\ UNCHANGED <<next_id, now, matrix, file, issued, recent>>

\* listTasksByStatus: the filtered range copied into a vector
ListTasksByStatus(status) ==
    /\ last' = [op |-> "byStatus", args |-> <<status>>, result |-> Ok,
                value |-> TaskManager_getTasksByStatus(tasks, status)]
    /\ UNCHANGED <<tasks, next_id, now, matrix, file, issued, recent>>

GetTasksByPriority(min_priority, max_priority) ==
    /\ last' = [op |-> "byPriority", args |-> <<min_priority, max_priority>>,
                result |-> Ok,
                value |-> TaskManager_getTasksByPriority(tasks, min_priority, max_priority)]
    /\ UNCHANGED <<tasks, next_id, now, matrix, file, issued, recent>>

HandleStats ==
    /\ last' = [op |-> "stats", args |-> <<>>, result |-> Ok,
                value |-> [total |-> Len(tasks),
                           completed |-> TaskManager_getCompletedTasksCount(tasks),
                           pending |-> TaskManager_getPendingTasksCount(tasks),
                           completion_rate |-> TaskManager_getCompletionRate(tasks)]]
    /\ UNCHANGED <<tasks, next_id, now, matrix, file, issued, recent>>

\* every pair of the stored records
Pairs(ts) == {ts[i] : i \in 1..Len(ts)} \X {ts[i] : i \in 1..Len(ts)}

\* the comparators of handleSort, over the stored records
ByPriority_ascending(ts) == {p \in Pairs(ts) : p[1].priority < p[2].priority}
ByPriority(ts) == {p \in Pairs(ts) : p[1].priority > p[2].priority}
ByCreated(ts) == {p \in Pairs(ts) : p[1].created_at > p[2].created_at}
ByTitle(ts) == {p \in Pairs(ts) : StringLess(p[1].title, p[2].title)}

SortCriteria == {"priority", "created", "title"}

HandleSort(criteria) ==
    /\ \E sorted \in IF criteria = "priority"
                        THEN TaskManager_getSortedTasks(tasks, ByPriority(tasks))
                      ELSE IF criteria = "created"
                        THEN TaskManager_getSortedTasks(tasks, ByCreated(tasks))
                      ELSE IF criteria = "title"
                        THEN TaskManager_getSortedTasks(tasks, ByTitle(tasks))
                      ELSE {<<>>} :
          last' = [op |-> "sort", args |-> <<criteria>>,
                   result |-> IF criteria \in SortCriteria THEN Ok ELSE "invalid sort criteria",
                   value |-> sorted]
    /\ UNCHANGED <<tasks, next_id, now, matrix, file, issued, recent>>

\* a record object with the given texts after "id":, "title":, "status":
\* and "priority":, a field with the empty text being left out
RecordText(id_text, title_text, status_text, priority_text) ==
    LET Field(key, text) == IF text = "" THEN <<>> ELSE <<"\"" \o key \o "\": " \o text>>
        fields == Field("id", id_text) \o Field("title", title_text)
                    \o Field("status", status_text) \o Field("priority", priority_text)
        joined[i \in 0..Len(fields)] ==
            IF i = 0 THEN ""
            ELSE IF i = 1 THEN fields[1]
            ELSE joined[i - 1] \o ", " \o fields[i]
    IN "{" \o joined[Len(fields)] \o "}"

\* Task::fromJson called on one record object
DecodeRecord(id_text, title_text, status_text, priority_text) ==
    LET r == Task_fromJson(RecordText(id_text, title_text, status_text, priority_text), now) IN
    /\ last' = [op |-> "decode",
                args |-> <<id_text, title_text, status_text, priority_text>>,
                result |-> r.result, value |-> r.task]
    /\ UNCHANGED <<tasks, next_id, now, matrix, file, issued, recent>>

\* the texts of a sequence, one after the other
Concat(parts) ==
    LET joined[i \in 0..Len(parts)] ==
            IF i = 0 THEN "" ELSE joined[i - 1] \o parts[i]
    IN joined[Len(parts)]

\* Task::fromJson's findValue on a record whose title is written as the
\* given pieces
DecodeString(pieces) ==
    /\ last' = [op |-> "decodeString", args |-> pieces, result |-> Ok,
                value |-> findValue("{\"title\": \"" \o Concat(pieces) \o "\"}", "title")]
    /\ UNCHANGED <<tasks, next_id, now, matrix, file, issued, recent>>

\* escapeJsonString on the given characters
EncodeString(chars) ==
    /\ last' = [op |-> "encodeString", args |-> chars, result |-> Ok,
                value |-> escapeJsonString(Concat(chars))]
    /\ UNCHANGED <<tasks, next_id, now, matrix, file, issued, recent>>

----------------------------------------------------------------------------
(* The view command: the file shown as a table, with a summary. *)

\* an exception that no handler catches: the program ends
Uncaught == "uncaught"

\* the extractValue lambda of parseTasksFromJson, the same text as the
\* findValue lambda of Task::fromJson
App_extractValue(task_obj, key) == findValue(task_obj, key)

\* the fields parseTasksFromJson reads from one object; thrown when
\* std::stoi throws on the id or the priority
App_TaskInfo(task_obj) ==
    TheOnly({
        LET id == IF id_str # "" THEN Stoi(id_str) ELSE [thrown |-> FALSE, value |-> 0]
            priority == IF priority_str # "" THEN Stoi(priority_str)
                        ELSE [thrown |-> FALSE, value |-> 0]
        IN [thrown |-> id.thrown \/ priority.thrown,
            task |-> [id |-> id.value,
                      title |-> App_extractValue(task_obj, "title"),
                      status |-> App_extractValue(task_obj, "status"),
                      category |-> App_extractValue(task_obj, "category"),
                      created_at |-> App_extractValue(task_obj, "created_at"),
                      description |-> App_extractValue(task_obj, "description"),
                      priority |-> priority.value]] :
        id_str \in {App_extractValue(task_obj, "id")},
        priority_str \in {App_extractValue(task_obj, "priority")}})

\* the while loop of parseTasksFromJson from position from on, with acc
\* the objects pushed so far; the braces are matched up to the end of the
\* text
RECURSIVE ParseTaskInfos(_, _, _)
ParseTaskInfos(str, from, acc) ==
    TheOnly({
        IF pos > Len(str) \/ CharAt(str, pos) = "]" THEN [thrown |-> FALSE, tasks |-> acc]
        ELSE IF CharAt(str, pos) = "{"
        THEN TheOnly({
                 TheOnly({
                     IF info.thrown THEN [thrown |-> TRUE, tasks |-> acc]
                     ELSE TheOnly({ParseTaskInfos(str, m.obj_end, pushed) :
                                   pushed \in {Append(acc, info.task)}}) :
                     info \in {App_TaskInfo(Substr(str, pos, m.obj_end - pos))}}) :
                 m \in {MatchBrace(str, pos + 1, Len(str) + 1, 1)}})
        ELSE TheOnly({ParseTaskInfos(str, next, acc) : next \in {pos + 1}}) :
        pos \in {SkipSpace(str, from)}})

App_parseTasksFromJson(json_content) ==
    TheOnly({
        IF tasks_pos = npos THEN [thrown |-> FALSE, tasks |-> <<>>]
        ELSE TheOnly({
                 IF array_start = npos THEN [thrown |-> FALSE, tasks |-> <<>>]
                 ELSE ParseTaskInfos(json_content, array_start + 1, <<>>) :
                 array_start \in {Find(json_content, "[", tasks_pos)}}) :
        tasks_pos \in {Find(json_content, "\"tasks\":", 1)}})

\* the summary of displayJsonAsTable over the listed tasks
App_summary(listed) ==
    LET Count(status) == Cardinality({i \in 1..Len(listed) : listed[i].status = status})
    IN [total |-> Len(listed),
        pending |-> Count("Pending"),
        completed |-> Count("Completed"),
        in_progress |-> Count("InProgress"),
        cancelled |-> Count("Cancelled")]

\* displayJsonAsTable: the summary it prints, <<>> when it prints none
App_displayJsonAsTable(json_content) ==
    TheOnly({
        IF parsed.thrown THEN [result |-> Uncaught, value |-> <<>>]
        ELSE IF parsed.tasks = <<>> THEN [result |-> Ok, value |-> <<>>]
        ELSE [result |-> Ok, value |-> <<App_summary(parsed.tasks)>>] :
        parsed \in {App_parseTasksFromJson(json_content)}})

\* handleView on the file f (<<>> when it cannot be opened)
App_handleView(f) ==
    IF f = <<>> THEN [result |-> FileNotFound, value |-> <<>>]
    ELSE IF f[1] = "" THEN [result |-> Ok, value |-> <<>>]
    ELSE App_displayJsonAsTable(f[1])

HandleView ==
    /\ last' = TheOnly({[op |-> "view", args |-> <<>>, result |-> r.result, value |-> r.value] :
                        r \in {App_handleView(file)}})
    /\ UNCHANGED <<tasks, next_id, now, matrix, file, issued, recent>>

----------------------------------------------------------------------------
(* The command loop. *)

MIN_COMMAND_LENGTH == 1
MAX_RECENT_COMMANDS == 10

\* App::_commands: min_args and max_args of every command
Commands ==
    [add |-> <<1, 2>>, list |-> <<0, 1>>, complete |-> <<1, 1>>, remove |-> <<1, 1>>,
     status |-> <<2, 2>>, priority |-> <<2, 2>>, category |-> <<2, 2>>,
     stats |-> <<0, 0>>, find |-> <<1, 1>>, sort |-> <<1, 1>>, help |-> <<0, 0>>,
     exit |-> <<0, 0>>, save |-> <<0, 1>>, load |-> <<0, 1>>, view |-> <<0, 1>>,
     matrix |-> <<0, 0>>, get |-> <<2, 2>>, recent |-> <<0, 0>>]

\* parseInput from character i on: a quote switches in_quotes and is
\* dropped, a space outside quotes ends the current token
RECURSIVE ParseInputFrom(_, _, _, _, _)
ParseInputFrom(input, i, tokens, current_token, in_quotes) ==
    IF i > Len(input)
    THEN IF current_token # "" THEN Append(tokens, current_token) ELSE tokens
    ELSE TheOnly({
             IF c = "\"" THEN ParseInputFrom(input, i + 1, tokens, current_token, ~in_quotes)
             ELSE IF c = " " /\ ~in_quotes
             THEN IF current_token # ""
                  THEN ParseInputFrom(input, i + 1, Append(tokens, current_token), "", in_quotes)
                  ELSE ParseInputFrom(input, i + 1, tokens, current_token, in_quotes)
             ELSE ParseInputFrom(input, i + 1, tokens, current_token \o c, in_quotes) :
             c \in {CharAt(input, i)}})

App_parseInput(input) == ParseInputFrom(input, 1, <<>>, "", FALSE)

App_validateCommand(cmd) ==
    cmd # "" /\ Len(cmd) >= MIN_COMMAND_LENGTH /\ cmd \in DOMAIN Commands

\* the history keeping every command
App_track_unbounded(history, command) ==
    [erased |-> <<>>, recent |-> Append(history, command)]

\* run: the oldest entry is erased when the history is full, then the
\* command is pushed
App_track(history, command) ==
    IF Len(history) >= MAX_RECENT_COMMANDS
    THEN [erased |-> <<Head(history)>>, recent |-> Append(Tail(history), command)]
    ELSE [erased |-> <<>>, recent |-> Append(history, command)]

\* one turn of the loop of run on the line input, for the lines that call
\* handleRecent or handleMatrix or no handler at all.  The value left in
\* last is what the turn erased from the history.
RunLine(input) ==
    \E tokens \in {App_parseInput(input)} :
        IF input = "" \/ tokens = <<>>
        THEN /\ last' = [op |-> "run", args |-> <<input>>, result |-> "skipped", value |-> <<>>]
             /\ UNCHANGED <<tasks, next_id, now, matrix, file, issued, recent>>
        ELSE IF ~App_validateCommand(tokens[1])
        THEN /\ last' = [op |-> "run", args |-> <<input>>, result |-> "unknown", value |-> <<>>]
             /\ UNCHANGED <<tasks, next_id, now, matrix, file, issued, recent>>
        ELSE IF \/ Len(Tail(tokens)) < Commands[tokens[1]][1]
                \/ Len(Tail(tokens)) > Commands[tokens[1]][2]
        THEN /\ last' = [op |-> "run", args |-> <<input>>, result |-> "usage", value |-> <<>>]
             /\ UNCHANGED <<tasks, next_id, now, matrix, file, issued, recent>>
        ELSE \E tracked \in {App_track(recent, tokens[1])} :
                 /\ recent' = tracked.recent
                 /\ last' = [op |-> "run", args |-> <<input>>, result |-> Ok,
                             value |-> tracked.erased]
                 /\ tokens[1] \in {"recent", "matrix"}
                 /\ matrix' = IF tokens[1] = "matrix"
                               THEN AddAll(TaskMatrix_clear(matrix), tasks)
                               ELSE matrix
                 /\ UNCHANGED <<tasks, next_id, now, file, issued>>

----------------------------------------------------------------------------
(* Persistence commands, and the file being written from outside. *)

\* handleSave: saveToJson on a path that can be opened and written
HandleSave ==
    /\ file' = <<TaskManager_toJsonString(tasks, next_id)>>
    /\ last' = [op |-> "save", args |-> <<>>, result |-> Ok, value |-> 0]
    /\ UNCHANGED <<tasks, next_id, now, matrix, issued, recent>>

HandleLoad ==
    LET r == TaskManager_loadFromJson(tasks, next_id, file, now) IN
    /\ tasks' = r.tasks
    /\ next_id' = r.next_id
    /\ last' = [op |-> "load", args |-> <<>>, result |-> r.result, value |-> 0]
    /\ UNCHANGED <<now, matrix, file, issued, recent>>

\* somebody else writes the file
WriteFile(document) ==
    /\ file' = <<document>>
    /\ last' = [op |-> "write", args |-> <<>>, result |-> Ok, value |-> 0]
    /\ UNCHANGED <<tasks, next_id, now, matrix, issued, recent>>

----------------------------------------------------------------------------
(* Inputs. *)

Titles == {"", "a", "A", "b"}
Descriptions == {"", "d"}
Ids == 1 .. MaxAdds

NextStore ==
    \/ Tick
    \/ \E title \in Titles, description \in Descriptions : AddTask(title, description)
    \/ \E id \in Ids : RemoveTask(id)

SpecStore == Init /\ [][NextStore]_vars

\* add and status changes over two titles, with the clock running
NextStatus ==
    \/ Tick
    \/ \E title \in {"a", "b"} : AddTask(title, "")
    \/ \E id \in Ids, status \in TaskStatus : UpdateTaskStatus(id, status)

SpecStatus == Init /\ [][NextStatus]_vars

Priorities == {-1, 0, 10, 11}
Categories == {"", "Work"}

\* the store with priority and category changes and the index commands,
\* all within one reading of the clock
NextIndex ==
    \/ \E title \in {"a", "b"} : AddTask(title, "")
    \/ \E id \in Ids : RemoveTask(id)
    \/ \E id \in Ids : HandlePriority(id, 11)
    \/ \E id \in Ids : HandleCategory(id, "")
    \/ HandleMatrix
    \/ \E category \in {"General", "Default", "Work"}, priority \in {0, 11} :
          HandleGet(category, priority)

SpecIndex == Init /\ [][NextIndex]_vars

\* documents somebody else may leave in the file
DocNoNextId ==
    "{\"tasks\": [{\"id\": 7, \"title\": \"x\", \"status\": \"Pending\", \"priority\": 99}, {\"id\": 3, \"title\": \"y\", \"status\": \"Completed\"}]}"
DocSecondWithoutTitle ==
    "{\"next_id\": 9, \"tasks\": [{\"id\": 7, \"title\": \"x\", \"status\": \"Pending\"}, {\"id\": 8, \"status\": \"Pending\"}]}"
DocNoTasks == "{\"next_id\": 5}"
DocBadId == "{\"next_id\": 5, \"tasks\": [{\"id\": abc, \"title\": \"x\", \"status\": \"Pending\"}]}"
DocBadNextId == "{\"next_id\": zz, \"tasks\": []}"
Documents == {DocNoNextId, DocSecondWithoutTitle, DocNoTasks, DocBadId, DocBadNextId}

\* the store with priority and category changes, saved to and loaded from
\* a file that may also be written from outside, within one reading of the
\* clock
Next ==
    \/ AddTask("a", "")
    \/ HandleCategory(1, "")
    \/ HandleSave
    \/ HandleLoad
    \/ \E document \in Documents : WriteFile(document)

Spec == Init /\ [][Next]_vars

\* the store saved to and loaded from a file that may also be written from
\* outside, with a document that loads and one that does not
NextLoad ==
    \/ AddTask("a", "")
    \/ HandleSave
    \/ HandleLoad
    \/ \E document \in {DocNoNextId, DocNoTasks} : WriteFile(document)

SpecLoad == Init /\ [][NextLoad]_vars

\* a document holding the same id twice, the first record of the store being
\* the one whose index key comes last
DocTwins ==
    "{\"next_id\": 9, \"tasks\": [{\"id\": 7, \"title\": \"x\", \"status\": \"Pending\", \"category\": \"Work\", \"priority\": 5}, {\"id\": 7, \"title\": \"y\", \"status\": \"Pending\"}]}"

SnapshotIds == {1, 7}

\* every mutation of the store, the rebuild of the index, and removals made
\* on the index itself, within one reading of the clock
NextSnapshot ==
    \/ AddTask("a", "")
    \/ \E id \in SnapshotIds : RemoveTask(id)
    \/ UpdateTaskStatus(1, "InProgress")
    \/ HandlePriority(1, 5)
    \/ HandleCategory(1, "Work")
    \/ WriteFile(DocTwins)
    \/ HandleLoad
    \/ HandleMatrix
    \/ \E task_id \in SnapshotIds : IndexRemove(task_id)

SpecSnapshot == Init /\ [][NextSnapshot]_vars

\* four records, one of them completed
DocFour ==
    "{\"next_id\": 5, \"tasks\": [{\"id\": 1, \"title\": \"p\", \"status\": \"Pending\"}, {\"id\": 2, \"title\": \"q\", \"status\": \"Completed\", \"priority\": 5}, {\"id\": 3, \"title\": \"r\", \"status\": \"In Progress\"}, {\"id\": 4, \"title\": \"s\", \"status\": \"Cancelled\", \"priority\": 3}]}"

PriorityRanges == {<<0, 5>>, <<1, 5>>, <<0, 0>>, <<5, 0>>}

\* the store under add, remove, completion and priority change, read by
\* the lookup and the filters
NextQuery ==
    \/ \E title \in {"a", "b"} : AddTask(title, "")
    \/ RemoveTask(1)
    \/ UpdateTaskStatus(2, "Completed")
    \/ HandlePriority(2, 5)
    \/ \E id \in {1, 2}, title \in {"", "z"} : GetTaskThenSet(id, title)
    \/ \E status \in {"Pending", "Completed"} : ListTasksByStatus(status)
    \/ \E range \in PriorityRanges : GetTasksByPriority(range[1], range[2])

SpecQuery == Init /\ [][NextQuery]_vars

\* a loaded store under completion and removal, read by the statistics
NextStats ==
    \/ WriteFile(DocFour)
    \/ HandleLoad
    \/ \E id \in {1, 2, 3} : UpdateTaskStatus(id, "Completed")
    \/ \E id \in {1, 2} : RemoveTask(id)
    \/ HandleStats

SpecStats == Init /\ [][NextStats]_vars

\* records added at different times and given different priorities, and
\* the sort command
NextSort ==
    \/ Tick
    \/ \E title \in {"b", "a", "A"} : AddTask(title, "")
    \/ HandlePriority(2, 5)
    \/ \E criteria \in SortCriteria \cup {"id"} : HandleSort(criteria)

SpecSort == Init /\ [][NextSort]_vars

\* what a record object may hold after each key: nothing, a value that
\* decodes, and values that do not
IdTexts == {"", "7", "abc", "99999999999"}
TitleTexts == {"", "\"x\"", "\"\""}
StatusTexts == {"", "\"Pending\"", "\"bogus\"", "\"In Progress\""}
PriorityTexts == {"", "5", "zz", "99999999999"}

NextDecode ==
    \E id_text \in IdTexts, title_text \in TitleTexts,
       status_text \in StatusTexts, priority_text \in PriorityTexts :
        DecodeRecord(id_text, title_text, status_text, priority_text)

SpecDecode == Init /\ [][NextDecode]_vars

\* two records under every setter, with the clock running
NextSetters ==
    \/ Tick
    \/ \E title \in {"a", "b"} : AddTask(title, "")
    \/ \E title \in {"", "a"} : SetTitle(2, title)
    \/ SetDescription(1, "d")
    \/ UpdateTaskStatus(1, "Completed")
    \/ HandlePriority(2, 5)
    \/ HandleCategory(2, "Work")

SpecSetters == Init /\ [][NextSetters]_vars

\* what a quoted value may be written with: a plain character, the escape
\* sequences of a newline, a backslash and a quote, and two sequences the
\* decoder does not know
EscapePieces == {"a", "\\n", "\\\\", "\\\"", "\\q", "\\u"}

\* what a string may hold: printable characters, the two that are always
\* escaped, a tab, a control character without a short escape, and a byte
\* from 0x80 on
StringChars == {"a", "~", "\"", "\\", "\t", StartOfHeading, HighByte}

SeqsUpTo(S, n) == UNION {[1..k -> S] : k \in 1..n}

NextText ==
    \/ \E pieces \in SeqsUpTo(EscapePieces, MaxText) : DecodeString(pieces)
    \/ \E chars \in SeqsUpTo(StringChars, MaxText) : EncodeString(chars)

SpecText == Init /\ [][NextText]_vars

\* records whose title, description or category holds a bracket or a
\* brace, saved and loaded
NextBrackets ==
    \/ \E title \in {"a", "]", "{"}, description \in {"", "[}"} : AddTask(title, description)
    \/ HandleCategory(1, "}")
    \/ HandleSave
    \/ HandleLoad

SpecBrackets == Init /\ [][NextBrackets]_vars

\* documents with an id or a priority that std::stoi refuses
DocBadIdListed == "{\"tasks\": [{\"id\": abc, \"title\": \"x\", \"status\": \"Pending\"}]}"
DocBigPriority ==
    "{\"tasks\": [{\"id\": 1, \"title\": \"x\", \"status\": \"Pending\", \"priority\": 99999999999}]}"

\* the program runs until an exception leaves a handler
Running == last.result # Uncaught

\* the store saved to a file that may also be written from outside, and
\* the file viewed
NextView ==
    \/ Running /\ AddTask("a", "")
    \/ Running /\ \E id \in {1, 2}, status \in {"InProgress", "Completed", "Cancelled"} :
                     UpdateTaskStatus(id, status)
    \/ Running /\ HandleSave
    \/ Running /\ \E document \in {"", DocBadIdListed, DocBigPriority} : WriteFile(document)
    \/ Running /\ HandleView

SpecView == Init /\ [][NextView]_vars

\* the lines typed: two that name a command without arguments, an unknown
\* command, a command with too many and one with too few arguments, a
\* line of spaces and the empty line
Lines == {"recent", " \"matrix\"", "bogus", "recent x", "remove", "  ", ""}

NextRun == \E input \in Lines : RunLine(input)

SpecRun == Init /\ [][NextRun]_vars

\* the records handed to the index: a record with a category, priority and
\* id of its own choice
Filed(id, category, priority) ==
    [Task(id, "a", "", "Pending", 0) EXCEPT !.category = category, !.priority = priority]

FiledRecords ==
    {Filed(1, "", 0), Filed(1, "Work", 5), Filed(2, "Default", 0), Filed(2, "Work", 0)}

\* the index on its own: addTask, removeTask and clear in any order
NextBuckets ==
    \/ \E task \in FiledRecords : IndexAdd(task)
    \/ \E task_id \in {1, 2, 3} : IndexRemove(task_id)
    \/ IndexClear

SpecBuckets == Init /\ [][NextBuckets]_vars

----------------------------------------------------------------------------
(* Properties of the store. *)

HasId(ts, id) == \E i \in 1..Len(ts) : ts[i].id = id
HasTitle(ts, title) == \E i \in 1..Len(ts) : ts[i].title = title
WithoutId(ts, id) == LET Keep(t) == t.id # id IN SelectSeq(ts, Keep)

\* C1: the ids successful adds return are strictly increasing in the order
\* they were returned (so none is returned twice), whatever was removed in
\* between.
C1_MonotonicIds ==
    \A i, j \in 1..Len(issued) : i < j => issued[i] < issued[j]

\* an add succeeded after every earlier record had been removed
C1_Witness ==
    /\ last.op = "add" /\ last.result = Ok
    /\ Len(issued) >= 2
    /\ Len(tasks) = 1

\* C6: add fails with EmptyTitle on an empty title and with DuplicateTask
\* when a stored record has exactly that title (whatever the description),
\* succeeds otherwise, and a failed add changes neither the records nor
\* next_id.
C6_AddFailures ==
    [][last'.op = "add" =>
         LET title == last'.args[1] IN
         /\ title = "" => last'.result = EmptyTitle
         /\ (title # "" /\ HasTitle(tasks, title)) => last'.result = DuplicateTask
         /\ (title # "" /\ ~HasTitle(tasks, title)) => last'.result = Ok
         /\ last'.result \in {EmptyTitle, DuplicateTask} =>
                (tasks' = tasks /\ next_id' = next_id)]_vars

\* an add was rejected as a duplicate of a record with another description
C6_Witness ==
    /\ last.op = "add" /\ last.result = DuplicateTask
    /\ \E i \in 1..Len(tasks) :
          tasks[i].title = last.args[1] /\ tasks[i].description # last.args[2]

\* C8: remove of an absent id returns TaskNotFound and changes nothing;
\* remove of a stored id removes that one record, keeps the others in
\* their order and leaves next_id alone.
C8_Remove ==
    [][last'.op = "remove" =>
         LET id == last'.args[1] IN
         /\ next_id' = next_id
         /\ ~HasId(tasks, id) => (last'.result = TaskNotFound /\ tasks' = tasks)
         /\ HasId(tasks, id) =>
                /\ last'.result = Ok
                /\ tasks' = WithoutId(tasks, id)
                /\ Len(tasks') = Len(tasks) - 1]_vars

\* a record was removed from between two others
C8_Witness ==
    /\ last.op = "remove" /\ last.result = Ok
    /\ Len(tasks) = 2
    /\ tasks[1].id < last.args[1] /\ last.args[1] < tasks[2].id

\* C9: a record made by add has no completed_at; a status change to
\* Completed leaves it present; every other step leaves the completed_at of
\* each record that stays in the store exactly as it was, so it is present
\* if and only if the status was set to Completed at some time, is never
\* cleared, and changes only in a call that sets Completed.
C9_CompletedAt ==
    [][/\ (last'.op = "add" /\ last'.result = Ok) =>
             tasks'[Len(tasks')].completed_at = nullopt
       /\ \A i \in 1..Len(tasks), j \in 1..Len(tasks') :
             tasks[i].id = tasks'[j].id =>
                IF /\ last'.op = "status" /\ last'.result = Ok
                   /\ last'.args = <<tasks[i].id, "Completed">>
                THEN tasks'[j].completed_at # nullopt
                ELSE tasks'[j].completed_at = tasks[i].completed_at]_vars

\* a record that was completed earlier has just been moved away from
\* Completed and still carries its completed_at
C9_Witness ==
    /\ last.op = "status" /\ last.result = Ok /\ last.args[2] # "Completed"
    /\ \E i \in 1..Len(tasks) :
          /\ tasks[i].id = last.args[1]
          /\ tasks[i].status # "Completed"
          /\ tasks[i].completed_at # nullopt

----------------------------------------------------------------------------
(* Properties of the priority setter and of the index lookup. *)

PriorityOf(ts, id) == ts[FindById(ts, id)].priority

\* C3: setPriority(p) on a stored record succeeds and commits p when
\* 0 <= p <= 10, and otherwise returns InvalidPriority and leaves the
\* record's priority as it was.
C3_SetPriorityRange ==
    [][(last'.op = "priority" /\ HasId(tasks, last'.args[1])) =>
         LET id == last'.args[1]
             p == last'.args[2]
         IN IF 0 <= p /\ p <= 10
            THEN last'.result = Ok /\ PriorityOf(tasks', id) = p
            ELSE /\ last'.result = InvalidPriority
                 /\ PriorityOf(tasks', id) = PriorityOf(tasks, id)]_vars

\* the keys a record is indexed under
KeyOf(task) == <<IF task.category = "" THEN "Default" ELSE task.category, task.priority>>

\* the records of ts indexed under (category, priority), in store order
Bucket(ts, category, priority) ==
    LET In(t) == KeyOf(t) = <<category, priority>> IN SelectSeq(ts, In)

\* C5: the lookup of the get command returns the bucket at the compound
\* key, or an empty sequence when a level of the key is absent, and adds
\* no key: after it, every category and every priority under it is one
\* that some stored record is indexed under.
C5_LookupAddsNoKey ==
    [][last'.op = "get" =>
         /\ last'.value = Bucket(tasks, last'.args[1], last'.args[2])
         /\ \A c \in TaskMatrix_getCategories(matrix') :
               /\ \E i \in 1..Len(tasks) : KeyOf(tasks[i])[1] = c
               /\ \A p \in TaskMatrix_getPriorities(matrix', c) :
                     \E i \in 1..Len(tasks) : KeyOf(tasks[i]) = <<c, p>>]_vars

----------------------------------------------------------------------------
(* Properties of the file format. *)

\* the fields of a record that the file format promises to keep
Core(task) ==
    [id |-> task.id, title |-> task.title, description |-> task.description,
     status |-> task.status, category |-> task.category, priority |-> task.priority]

CoreOf(ts) == [i \in 1..Len(ts) |-> Core(ts[i])]

\* C2: the document written for the store, read into a fresh manager,
\* gives the same records in the same order with the same id, title,
\* description, status, category and priority, and the same next_id.
C2_RoundTrip ==
    \A decoded \in {TaskManager_fromJsonString(<<>>, 1,
                        TaskManager_toJsonString(tasks, next_id), now)} :
        /\ decoded.result = Ok
        /\ CoreOf(decoded.tasks) = CoreOf(tasks)
        /\ decoded.next_id = next_id

\* C4: a load that fails leaves the records and next_id as they were.
C4_FailedLoadChangesNothing ==
    [][(last'.op = "load" /\ last'.result # Ok) =>
           (tasks' = tasks /\ next_id' = next_id)]_vars

\* C7: every stored record's priority lies in 0..10.
C7_PriorityInRange ==
    \A i \in 1..Len(tasks) : tasks[i].priority \in 0..10

\* the numbers after each "id": key of a document, in document order
RECURSIVE DocIds(_, _)
DocIds(str, from) ==
    TheOnly({
        IF p = npos THEN <<>>
        ELSE <<TheOnly({Stoi(rest).value : rest \in {SubSeq(str, p + 5, Len(str))}})>>
             \o TheOnly({DocIds(str, q) : q \in {p + 5}}) :
        p \in {Find(str, "\"id\":", from)}})

\* C10: after a successful load the records are those of the document, in
\* document order, whatever was stored before, and next_id is the
\* document's next_id, or what it was when the document has none.
C10_LoadReplaces ==
    [][(last'.op = "load" /\ last'.result = Ok) =>
           \A fresh \in {TaskManager_fromJsonString(<<>>, 1, file[1], now)},
              next_id_str \in {findValueRaw(file[1], "next_id")} :
               /\ tasks' = fresh.tasks
               /\ [i \in 1..Len(tasks') |-> tasks'[i].id] = DocIds(file[1], 1)
               /\ next_id' = IF next_id_str = "" THEN next_id
                             ELSE Stoi(next_id_str).value]_vars

\* a document without next_id, holding two records not in id order, was
\* loaded over a stored record that is not in it
C10_Witness ==
    /\ last.op = "load" /\ last.result = Ok
    /\ file = <<DocNoNextId>>
    /\ Len(tasks) = 2 /\ tasks[1].id = 7 /\ tasks[2].id = 3
    /\ ~HasTitle(tasks, "a")
    /\ issued # <<>>
    /\ next_id > 1

----------------------------------------------------------------------------
(* Properties of the index. *)

\* the record is held in the bucket of m at (category, priority)
InBucket(m, category, priority, task) ==
    /\ category \in DOMAIN m
    /\ priority \in DOMAIN m[category]
    /\ \E k \in 1..Len(m[category][priority]) : m[category][priority][k] = task

\* C11: a record the store's add creates has category "General"; when the
\* index is built, a record with the empty category is held under
\* "Default" at its priority, and a record with category "General" under
\* "General" at its priority and in no bucket of "Default".
C11_EmptyCategoryUnderDefault ==
    [][/\ (last'.op = "add" /\ last'.result = Ok) =>
              tasks'[Len(tasks')].category = "General"
       /\ last'.op \in {"matrix", "get"} =>
              \A i \in 1..Len(tasks') :
                  /\ tasks'[i].category = "" =>
                         InBucket(matrix', "Default", tasks'[i].priority, tasks'[i])
                  /\ tasks'[i].category = "General" =>
                         /\ InBucket(matrix', "General", tasks'[i].priority, tasks'[i])
                         /\ \A p \in TaskMatrix_getPriorities(matrix', "Default") :
                                ~InBucket(matrix', "Default", p, tasks'[i])]_vars

\* the index was built from a store holding a record with the empty
\* category and a record as add created it
C11_Witness ==
    /\ last.op = "matrix"
    /\ \E i, j \in 1..Len(tasks) :
          /\ tasks[i].category = ""
          /\ InBucket(matrix, "Default", tasks[i].priority, tasks[i])
          /\ tasks[j].category = "General"
          /\ InBucket(matrix, "General", tasks[j].priority, tasks[j])

\* the categories and priorities a bucket is asked for: those of the
\* index, those of the stored records, and some that neither has
AskedCategories(m, ts) ==
    DOMAIN m \cup {ts[i].category : i \in 1..Len(ts)} \cup {"", "Default", "General", "Work"}

AskedPriorities(m, ts) ==
    UNION {DOMAIN m[c] : c \in DOMAIN m} \cup {ts[i].priority : i \in 1..Len(ts)}
    \cup {-1, 0, 5, 11}

\* C19: right after the matrix or the get command has rebuilt the index,
\* the bucket at every (category, priority) is the stored records with
\* that priority and that category ("Default" for the empty category), in
\* store order, and getTotalTaskCount() is the number of stored records.
C19_IndexMirrorsStore ==
    [][last'.op \in {"matrix", "get"} =>
           /\ \A c \in AskedCategories(matrix', tasks'),
                 p \in AskedPriorities(matrix', tasks') :
                  TaskMatrix_subscript_const(matrix', c, p).value = Bucket(tasks', c, p)
           /\ TaskMatrix_getTotalTaskCount(matrix') = Len(tasks')]_vars

\* the index was rebuilt from two records that share a bucket, by a get
\* command asking for another bucket
C19_Witness ==
    /\ last.op = "get" /\ last.value = <<>>
    /\ Len(tasks) = 2
    /\ TaskMatrix_getTotalTaskCount(matrix) = 2
    /\ \E c \in DOMAIN matrix : \E p \in DOMAIN matrix[c] : Len(matrix[c][p]) = 2


\* C12: a mutation of the store (add, remove, status, priority or category
\* change, load) leaves the index exactly as it was: the same keys and the
\* same records in every bucket, until the index is rebuilt.
C12_IndexIsSnapshot ==
    [][last'.op \in {"add", "remove", "status", "priority", "category", "load"}
          => matrix' = matrix]_vars

\* a record was removed from the store after the index was built, and the
\* index still holds it
C12_Witness ==
    /\ last.op = "remove"
    /\ last.result = Ok
    /\ ~HasId(tasks, last.args[1])
    /\ Holding(matrix, last.args[1]) # {}
    /\ TaskMatrix_getTotalTaskCount(matrix) > Len(tasks)

\* the bucket without its first record of that id
WithoutFirst(bucket, task_id) ==
    LET i == CHOOSE i \in 1..Len(bucket) :
                 /\ bucket[i].id = task_id
                 /\ \A j \in 1..(i - 1) : bucket[j].id # task_id
    IN SubSeq(bucket, 1, i - 1) \o SubSeq(bucket, i + 1, Len(bucket))

\* C20: the removal on the index answers true exactly when some bucket held
\* the id; then the total count goes down by one, the bucket that comes
\* first in (category, priority) order among those holding the id loses its
\* first record of that id, and every other bucket is as before; when it
\* answers false the index is unchanged.
C20_IndexRemove ==
    [][last'.op = "indexRemove" =>
         LET task_id == last'.args[1]
             holding == Holding(matrix, task_id)
         IN /\ last'.value = (holding # {})
            /\ holding = {} => matrix' = matrix
            /\ holding # {} =>
                 /\ TaskMatrix_getTotalTaskCount(matrix')
                      = TaskMatrix_getTotalTaskCount(matrix) - 1
                 /\ DOMAIN matrix' = DOMAIN matrix
                 /\ \A c \in DOMAIN matrix : DOMAIN matrix'[c] = DOMAIN matrix[c]
                 /\ \E k \in holding :
                      /\ \A k2 \in holding \ {k} : KeyBefore(k, k2)
                      /\ matrix'[k[1]][k[2]] = WithoutFirst(matrix[k[1]][k[2]], task_id)
                      /\ \A c \in DOMAIN matrix : \A p \in DOMAIN matrix[c] :
                            <<c, p>> # k => matrix'[c][p] = matrix[c][p]]_vars

\* the store holds id 7 twice, the record under ("Work", 5) first; the
\* removal took the one under ("General", 0) and the other is still indexed
C20_Witness ==
    /\ last.op = "indexRemove"
    /\ last.args = <<7>>
    /\ last.value = TRUE
    /\ Len(tasks) = 2
    /\ tasks[1].id = 7 /\ tasks[1].category = "Work"
    /\ tasks[2].id = 7 /\ tasks[2].category = "General"
    /\ Holding(matrix, 7) = {<<"Work", 5>>}
    /\ matrix["General"][0] = <<>>


----------------------------------------------------------------------------
(* Properties of the lookups, the status update and the queries. *)

\* C14: a status update for an id no record has answers TaskNotFound and
\* leaves the records and next_id as they were; otherwise it succeeds, the
\* record with that id has the requested status, every other record is
\* unchanged, the records are in the same order, and next_id is unchanged.
C14_UpdateStatus ==
    [][last'.op = "status" =>
         LET id == last'.args[1]
             status == last'.args[2]
         IN /\ next_id' = next_id
            /\ ~HasId(tasks, id) =>
                  /\ last'.result = TaskNotFound
                  /\ tasks' = tasks
                  /\ now' = now
            /\ HasId(tasks, id) =>
                  /\ last'.result = Ok
                  /\ Len(tasks') = Len(tasks)
                  /\ \A i \in 1..Len(tasks) :
                        /\ tasks'[i].id = tasks[i].id
                        /\ tasks[i].id = id => tasks'[i].status = status
                        /\ tasks[i].id # id => tasks'[i] = tasks[i]]_vars

\* the second of two records was just completed and the first is as added
C14_Witness ==
    /\ last.op = "status"
    /\ last.result = Ok
    /\ last.args = <<2, "Completed">>
    /\ Len(tasks) = 2
    /\ tasks[1].id = 1 /\ tasks[1].status = "Pending"
    /\ tasks[2].id = 2 /\ tasks[2].status = "Completed"


\* C13: the lookup of an id no record has answers TaskNotFound; otherwise
\* it answers the first record with that id as the store holds it, and a
\* setter applied to what was returned changes the returned record only:
\* the store is as it was.
C13_GetReturnsCopy ==
    [][last'.op = "getTask" =>
         LET id == last'.args[1]
             title == last'.args[2]
         IN /\ tasks' = tasks
            /\ ~HasId(tasks, id) =>
                  last'.result = TaskNotFound /\ last'.value.task = <<>>
            /\ HasId(tasks, id) =>
                  /\ last'.result = Ok
                  /\ \E i \in 1..Len(tasks) :
                        /\ tasks[i].id = id
                        /\ last'.value.task = <<tasks[i]>>
                        /\ title # "" => /\ last'.value.edited[1].title = title
                                         /\ tasks'[i].title # title]_opVars

\* the returned record was renamed and the stored one kept its title
C13_Witness ==
    /\ last.op = "getTask"
    /\ last.result = Ok
    /\ last.args = <<2, "z">>
    /\ last.value.edited[1].title = "z"
    /\ \E i \in 1..Len(tasks) : tasks[i].id = 2 /\ tasks[i].title = "b"

\* the k-th smallest member of a set of positions
Kth(S, k) == CHOOSE i \in S : Cardinality({j \in S : j < i}) = k - 1

\* r holds exactly the records of ts at the positions in S, in that order
IsSelection(r, ts, S) ==
    /\ Len(r) = Cardinality(S)
    /\ \A k \in 1..Len(r) : r[k] = ts[Kth(S, k)]

\* C15: the status filter yields the stored records with that status and
\* the priority filter those with min <= priority <= max (none when
\* min > max), each all of them, once, in store order; neither changes the
\* store.
C15_Filters ==
    [][/\ last'.op = "byStatus" =>
            /\ tasks' = tasks /\ next_id' = next_id
            /\ IsSelection(last'.value, tasks,
                     {i \in 1..Len(tasks) : tasks[i].status = last'.args[1]})
       /\ last'.op = "byPriority" =>
            /\ tasks' = tasks /\ next_id' = next_id
            /\ IsSelection(last'.value, tasks,
                     {i \in 1..Len(tasks) : /\ last'.args[1] <= tasks[i].priority
                                            /\ tasks[i].priority <= last'.args[2]})
            /\ last'.args[1] > last'.args[2] => last'.value = <<>>]_opVars

\* after add, add, remove(1), add the pending records are those with ids
\* 2 and 3
C15_Witness ==
    /\ last.op = "byStatus"
    /\ last.args = <<"Pending">>
    /\ issued = <<1, 2, 3>>
    /\ Len(tasks) = 2
    /\ Len(last.value) = 2
    /\ last.value[1].id = 2 /\ last.value[2].id = 3

\* the stored records that are completed
Completed(ts) == {i \in 1..Len(ts) : ts[i].status = "Completed"}

\* C17: the completion rate is 0 for the empty store and otherwise
\* 100 * (number of records now completed) / (number of records); its
\* divisor is never zero and it lies between 0 and 100; with four records
\* of which one is completed it is 25.
C17_CompletionRate ==
    [][last'.op = "stats" =>
         LET rate == last'.value.completion_rate IN
         /\ tasks' = tasks
         /\ rate.den > 0
         /\ tasks = <<>> => rate.num = 0
         /\ rate.num * Len(tasks) = 100 * Cardinality(Completed(tasks)) * rate.den
         /\ 0 <= rate.num /\ rate.num <= 100 * rate.den
         /\ (Len(tasks) = 4 /\ Cardinality(Completed(tasks)) = 1)
               => rate.num = 25 * rate.den]_opVars

\* four records, one completed, and the rate is 25
C17_Witness ==
    /\ last.op = "stats"
    /\ Len(tasks) = 4
    /\ Cardinality(Completed(tasks)) = 1
    /\ last.value.completion_rate.num = 25 * last.value.completion_rate.den


\* r holds the records of ts, each as often as ts does
IsPermutation(r, ts) ==
    /\ Len(r) = Len(ts)
    /\ \E f \in [1..Len(ts) -> 1..Len(ts)] :
          /\ \A i, j \in 1..Len(ts) : f[i] = f[j] => i = j
          /\ \A i \in 1..Len(ts) : r[i] = ts[f[i]]

\* C16: the sort command's sequence is a rearrangement of the stored
\* records in which priorities never increase (by priority), creation
\* times never increase (by creation time) or no title is followed by one
\* that is less (by title), and the store keeps its order and contents.
C16_Sorted ==
    [][(last'.op = "sort" /\ last'.args[1] \in SortCriteria) =>
         LET sorted == last'.value
             criteria == last'.args[1]
         IN /\ tasks' = tasks
            /\ IsPermutation(sorted, tasks)
            /\ \A i, j \in 1..Len(sorted) : i < j =>
                  /\ criteria = "priority" => sorted[i].priority >= sorted[j].priority
                  /\ criteria = "created" => sorted[i].created_at >= sorted[j].created_at
                  /\ criteria = "title" => ~StringLess(sorted[j].title, sorted[i].title)]_opVars

\* three records sorted by priority: the second, of priority 5, comes out
\* first, and the two of priority 0 come out against the store's order
C16_Witness ==
    /\ last.op = "sort"
    /\ last.args = <<"priority">>
    /\ Len(tasks) = 3
    /\ last.value = <<tasks[2], tasks[3], tasks[1]>>


----------------------------------------------------------------------------
(* Properties of the decoding of one record. *)

\* what is wrong with the texts of a record object
IdMissing(args) == args[1] = ""
TitleMissing(args) == args[2] \in {"", "\"\""}
StatusUnrecognised(args) == args[3] \notin {"\"Pending\"", "\"In Progress\""}
IdUnconvertible(args) == args[1] \in {"abc", "99999999999"}
PriorityUnconvertible(args) == args[4] \in {"zz", "99999999999"}

\* C18 as stated: a record without id or title and a record whose status
\* is not recognised decode to InvalidFormat, a record whose id or priority
\* is no integer decodes to ParseError, and every decoding ends in a
\* result.
C18_DecodeFailures ==
    [][last'.op = "decode" =>
         /\ last'.result \in {Ok, InvalidFormat, ParseError}
         /\ (IdMissing(last'.args) \/ TitleMissing(last'.args))
               => last'.result = InvalidFormat
         /\ StatusUnrecognised(last'.args) => last'.result = InvalidFormat
         /\ (IdUnconvertible(last'.args) \/ PriorityUnconvertible(last'.args))
               => last'.result = ParseError]_opVars

\* C18, amended: the faults are looked for in a fixed order and the first
\* one found decides: without id or title InvalidFormat; else with an id
\* that is no integer ParseError; else with a status that is not recognised
\* InvalidFormat; else with a priority that is no integer ParseError; else
\* the record decodes.  Every decoding ends in one of these results.
C18_DecodeOrder ==
    [][last'.op = "decode" =>
         /\ last'.result =
               IF IdMissing(last'.args) \/ TitleMissing(last'.args) THEN InvalidFormat
               ELSE IF IdUnconvertible(last'.args) THEN ParseError
               ELSE IF StatusUnrecognised(last'.args) THEN InvalidFormat
               ELSE IF PriorityUnconvertible(last'.args) THEN ParseError
               ELSE Ok
         /\ (last'.result = Ok) = (last'.value # <<>>)
         /\ last'.result = Ok =>
               /\ last'.value[1].id = 7
               /\ last'.value[1].title = "x"
               /\ last'.value[1].priority = (IF last'.args[4] = "" THEN 0 ELSE 5)]_opVars

\* a record whose id is no integer and whose status is not recognised
\* decodes to ParseError
C18_Witness ==
    /\ last.op = "decode"
    /\ last.args = <<"abc", "\"x\"", "\"bogus\"", "5">>
    /\ last.result = ParseError


----------------------------------------------------------------------------
(* Properties of the setters of a record. *)

SetterOps == {"setTitle", "setDescription", "status", "priority", "category"}

\* C21: a setter that succeeds leaves on the record it was called on the
\* time the clock showed as updated_at and the created_at it had; and,
\* the clock never going back, no record's created_at is later than its
\* updated_at.
C21_SetterStamps ==
    [][/\ (last'.op \in SetterOps /\ last'.result = Ok) =>
            \E i \in 1..Len(tasks) :
               /\ tasks[i].id = last'.args[1]
               /\ tasks'[i].updated_at = now
               /\ tasks'[i].created_at = tasks[i].created_at
               /\ now' >= now
       /\ \A i \in 1..Len(tasks') : tasks'[i].created_at <= tasks'[i].updated_at]_opVars

\* a record added at time 0 was given a priority at time 2
C21_Witness ==
    /\ last.op = "priority"
    /\ last.result = Ok
    /\ now = 2
    /\ \E i \in 1..Len(tasks) :
          /\ tasks[i].id = 2
          /\ tasks[i].created_at = 0
          /\ tasks[i].updated_at = 2

\* C22: setTitle("") answers EmptyTitle and the record keeps its title and
\* updated_at; setTitle with a title that is not empty succeeds and the
\* record has that title, also when another record has it already.
C22_SetTitle ==
    [][(last'.op = "setTitle" /\ HasId(tasks, last'.args[1])) =>
         \E i \in 1..Len(tasks) :
            /\ tasks[i].id = last'.args[1]
            /\ last'.args[2] = "" =>
                  /\ last'.result = EmptyTitle
                  /\ tasks'[i].title = tasks[i].title
                  /\ tasks'[i].updated_at = tasks[i].updated_at
                  /\ tasks' = tasks
            /\ last'.args[2] # "" =>
                  /\ last'.result = Ok
                  /\ tasks'[i].title = last'.args[2]]_opVars

\* the second record was given the title the first one has
C22_Witness ==
    /\ last.op = "setTitle"
    /\ last.result = Ok
    /\ last.args = <<2, "a">>
    /\ Len(tasks) = 2
    /\ tasks[1].title = "a"
    /\ tasks[2].title = "a"


----------------------------------------------------------------------------
(* Properties of the codec of strings. *)

\* what one piece of a quoted value stands for when a sequence the decoder
\* does not know stands for the character after the backslash
PieceMeans(piece) ==
    CASE piece = "\\n" -> "\n"
      [] piece = "\\\\" -> "\\"
      [] piece = "\\\"" -> "\""
      [] Len(piece) = 2 -> SubSeq(piece, 2, 2)
      [] OTHER -> piece

\* C23: a quoted value decodes piece by piece, a sequence of a backslash
\* and a character that is none of ", \, b, f, n, r, t giving that
\* character alone.
C23_UnknownEscape ==
    [][last'.op = "decodeString" =>
         last'.value = Concat([i \in 1..Len(last'.args) |-> PieceMeans(last'.args[i])])]_opVars

\* what one character is written as when only the characters below 0x20
\* without a short escape are written as \u00XX
CharWrittenAs(c) ==
    CASE c = "\"" -> "\\\""
      [] c = "\\" -> "\\\\"
      [] c = "\t" -> "\\t"
      [] c = StartOfHeading -> "\\u0001"
      [] OTHER -> c

\* C26: a string is written character by character, a character below
\* 0x20 without a short escape as \u00XX, and every character from 0x20
\* on other than the quote and the backslash, the bytes from 0x80 on
\* included, as itself.
C26_EncodeChars ==
    [][last'.op = "encodeString" =>
         last'.value = Concat([i \in 1..Len(last'.args) |-> CharWrittenAs(last'.args[i])])]_opVars


----------------------------------------------------------------------------
(* Properties of the ids across loads. *)

\* C24: the stored records have ids that are positive and differ from one
\* another, and next_id is greater than each of them.
C24_IdsBelowNextId ==
    \A i \in 1..Len(tasks) :
        /\ tasks[i].id > 0
        /\ tasks[i].id < next_id
        /\ \A j \in 1..Len(tasks) : tasks[i].id = tasks[j].id => i = j


----------------------------------------------------------------------------
(* Properties of the delimiting of the records of a document. *)

\* C25: the document written for the store, read into a fresh manager,
\* gives one record for each stored record, with the stored ids in the
\* stored order, whatever brackets and braces the strings of the records
\* hold.
C25_DelimitingIgnoresStrings ==
    \A decoded \in {TaskManager_fromJsonString(<<>>, 1,
                        TaskManager_toJsonString(tasks, next_id), now)} :
        /\ decoded.result = Ok
        /\ Len(decoded.tasks) = Len(tasks)
        /\ \A i \in 1..Len(tasks) : decoded.tasks[i].id = tasks[i].id


----------------------------------------------------------------------------
(* Properties of the index under its own operations. *)

\* the places (category, priority, position) where the index holds a
\* record with this id
Places(m, task_id) ==
    {x \in UNION {{<<c, p, k>> : k \in 1..Len(m[c][p])} :
                   <<c, p>> \in UNION {{c} \X DOMAIN m[c] : c \in DOMAIN m}} :
        m[x[1]][x[2]][x[3]].id = task_id}

Occurrences(m, task_id) == Cardinality(Places(m, task_id))

\* C27: under addTask, removeTask and clear on the index, every record in
\* the bucket at (c, p) has priority p and category c, or the empty
\* category when c is "Default"; addTask of a record raises the number of
\* places holding its id by one, removeTask lowers the number for its id
\* by at most one, clear makes every number 0, and no operation changes
\* the number of any other id, so that no id is held in more buckets or
\* more often than it was added.
C27_BucketsKeyedByRecord ==
    /\ [](\A c \in DOMAIN matrix : \A p \in DOMAIN matrix[c] :
            \A k \in 1..Len(matrix[c][p]) :
                /\ matrix[c][p][k].priority = p
                /\ \/ matrix[c][p][k].category = c
                   \/ c = "Default" /\ matrix[c][p][k].category = "")
    /\ [][\A task_id \in {1, 2, 3} :
            /\ last'.op = "indexAdd" =>
                   Occurrences(matrix', task_id) =
                       Occurrences(matrix, task_id)
                       + (IF last'.args[1].id = task_id THEN 1 ELSE 0)
            /\ last'.op = "indexRemove" =>
                   Occurrences(matrix', task_id) =
                       Occurrences(matrix, task_id)
                       - (IF last'.args[1] = task_id /\ Occurrences(matrix, task_id) > 0
                          THEN 1 ELSE 0)
            /\ last'.op = "indexClear" => Occurrences(matrix', task_id) = 0
            /\ Cardinality(Holding(matrix', task_id)) <= Occurrences(matrix', task_id)]_opVars

\* id 1 was added under ("Default", 0) and under ("Work", 5), id 2 under
\* ("Default", 0) with the category "Default", and one of the two records
\* with id 1 has been removed
C27_Witness ==
    /\ last.op = "indexRemove" /\ last.args = <<1>> /\ last.value = TRUE
    /\ Occurrences(matrix, 1) = 1
    /\ Holding(matrix, 1) = {<<"Work", 5>>}
    /\ Holding(matrix, 2) = {<<"Default", 0>>}
    /\ matrix["Default"][0] = <<Filed(2, "Default", 0)>>


----------------------------------------------------------------------------
(* Properties of the view command. *)

\* C28: whatever the file holds, the view command ends with a report: the
\* table and summary, or a note, or the error of a file that cannot be
\* read; no exception leaves the handler.
C28_ViewReturns ==
    last.op = "view" => last.result \in {Ok, FileNotFound, ParseError}

\* the number of stored records with this status
StoredWith(status) == Cardinality({i \in 1..Len(tasks) : tasks[i].status = status})

\* C29: when the file holds what save wrote for the store and the store
\* is not empty, the summary of view lists as many tasks as are stored,
\* counts under Pending, Completed, In Progress and Cancelled the stored
\* records with that status, and the four counts add up to the number
\* listed.
C29_ViewSummary ==
    (/\ last.op = "view"
     /\ tasks # <<>>
     /\ file = <<TaskManager_toJsonString(tasks, next_id)>>)
    => /\ last.result = Ok
       /\ last.value # <<>>
       /\ \A summary \in {last.value[i] : i \in DOMAIN last.value} :
             /\ summary.total = Len(tasks)
             /\ summary.pending = StoredWith("Pending")
             /\ summary.completed = StoredWith("Completed")
             /\ summary.in_progress = StoredWith("InProgress")
             /\ summary.cancelled = StoredWith("Cancelled")
             /\ summary.pending + summary.completed + summary.in_progress
                  + summary.cancelled = summary.total


----------------------------------------------------------------------------
(* Properties of the history of recent commands. *)

\* the last MAX_RECENT_COMMANDS entries of a sequence
MostRecent(names) ==
    IF Len(names) <= MAX_RECENT_COMMANDS THEN names
    ELSE SubSeq(names, Len(names) - MAX_RECENT_COMMANDS + 1, Len(names))

\* C30: the history never holds more than 10 entries; a line naming a
\* known command with a valid number of arguments puts the name of the
\* command at the end of the history, which keeps its 10 latest entries
\* in order; an unknown command, a command with too few or too many
\* arguments and a line without a token leave the history as it is.
C30_RecentCommands ==
    /\ [](Len(recent) <= MAX_RECENT_COMMANDS)
    /\ [][last'.op = "run" =>
            recent' = CASE last'.args[1] = "recent" ->
                               MostRecent(Append(recent, "recent"))
                        [] last'.args[1] = " \"matrix\"" ->
                               MostRecent(Append(recent, "matrix"))
                        [] OTHER -> recent]_opVars

\* the history was full when a valid line came: its oldest entry, matrix,
\* went and the name of the new command is the last of the 10 entries
C30_Witness ==
    /\ last.op = "run" /\ last.result = Ok
    /\ last.value = <<"matrix">>
    /\ Len(recent) = MAX_RECENT_COMMANDS
    /\ recent[1] = "recent"
    /\ recent[9] = "matrix"
    /\ recent[10] = "recent"

=============================================================================
